---------------------------- MODULE Spec2Model ----------------------------
(***************************************************************************)
(* stty: the mode-description engine (flag registry, value codecs,         *)
(* mutation engine, settings parser) of the two implementations            *)
(*   src/stty-gemini-2.5-pro.c   (impl = "gemini")                         *)
(*   src/stty-gpt-4o.c           (impl = "gpt4o")                          *)
(* built for a Linux target: HAVE_C_LINE and TIOCGWINSZ defined, TIOCEXT,  *)
(* VDSUSP, VSTATUS, CDTRDSR and OXTABS undefined, VMIN /= VEOF.            *)
(*                                                                         *)
(* Strings (tokens, names) are sequences of one-character strings, so the  *)
(* parsers read them character by character as the C code does.            *)
(* An unsigned word (tcflag_t, the flags byte of a registry entry) is the  *)
(* set of the positions of its 1 bits: a & ~m is a \ m, a | b is           *)
(* a \cup b, and a word is in tcflag_t range iff its positions are < 32.   *)
(***************************************************************************)
EXTENDS Integers, Sequences, FiniteSets, TLC

(* ------------------------------------------------------------------ *)
(* Bounds of the model                                                 *)
(* ------------------------------------------------------------------ *)
\* longest token list enumerated in full over Vocabulary
MaxTokens == 2

(* ------------------------------------------------------------------ *)
(* termios constants of the target (values of <termios.h> on Linux)    *)
(* ------------------------------------------------------------------ *)
IGNBRK == {0}
BRKINT == {1}
IGNPAR == {2}
PARMRK == {3}
INPCK == {4}
ISTRIP == {5}
INLCR == {6}
IGNCR == {7}
ICRNL == {8}
IUCLC == {9}
IXON == {10}
IXANY == {11}
IXOFF == {12}
IMAXBEL == {13}
IUTF8 == {14}
OPOST == {0}
OLCUC == {1}
ONLCR == {2}
OCRNL == {3}
ONOCR == {4}
ONLRET == {5}
OFILL == {6}
OFDEL == {7}
NLDLY == {8}
NL0 == {}
NL1 == {8}
CRDLY == {9, 10}
CR0 == {}
CR1 == {9}
CR2 == {10}
CR3 == {9, 10}
TABDLY == {11, 12}
TAB0 == {}
TAB1 == {11}
TAB2 == {12}
TAB3 == {11, 12}
BSDLY == {13}
BS0 == {}
BS1 == {13}
VTDLY == {14}
VT0 == {}
VT1 == {14}
FFDLY == {15}
FF0 == {}
FF1 == {15}
CSIZE == {4, 5}
CS5 == {}
CS6 == {4}
CS7 == {5}
CS8 == {4, 5}
CSTOPB == {6}
CREAD == {7}
PARENB == {8}
PARODD == {9}
HUPCL == {10}
CLOCAL == {11}
CMSPAR == {30}
CRTSCTS == {31}
ISIG == {0}
ICANON == {1}
XCASE == {2}
ECHO == {3}
ECHOE == {4}
ECHOK == {5}
ECHONL == {6}
NOFLSH == {7}
TOSTOP == {8}
ECHOCTL == {9}
ECHOPRT == {10}
ECHOKE == {11}
FLUSHO == {12}
IEXTEN == {15}
EXTPROC == {16}
VINTR == 0
VQUIT == 1
VERASE == 2
VKILL == 3
VEOF == 4
VTIME == 5
VMIN == 6
VSWTCH == 7
VSTART == 8
VSTOP == 9
VSUSP == 10
VEOL == 11
VREPRINT == 12
VFLUSHO == 13
VWERASE == 14
VLNEXT == 15
VEOL2 == 16
CINTR == 3
CQUIT == 28
CERASE == 127
CKILL == 21
CEOF == 4
CEOL == 0
CEOL2 == 0
CSWTCH == 0
CSTART == 17
CSTOP == 19
CSUSP == 26
CRPRNT == 18
CWERASE == 23
CLNEXT == 22
CFLUSHO == 15
SANE_SET == {0}
SANE_UNSET == {1}
REV == {2}
OMIT == {3}
NO_SETATTR == {4}
\* number of control-character slots of struct termios
NCCS == 32
\* _POSIX_VDISABLE
POSIX_VDISABLE == 0
\* TYPE_MAXIMUM (cc_t)
CC_MAX == 255
\* widths of tcflag_t and of unsigned long, in bits
TCFLAG_BITS == 32
ULONG_BITS == 64
\* (speed_t) -1
BAUD_INVALID == -1

(* ------------------------------------------------------------------ *)
(* The registries                                                      *)
(* ------------------------------------------------------------------ *)
mode_info ==
  << [name |-> <<"p","a","r","e","n","b">>, type |-> "control", flags |-> REV, bits |-> PARENB, mask |-> {}],
     [name |-> <<"p","a","r","o","d","d">>, type |-> "control", flags |-> REV, bits |-> PARODD, mask |-> {}],
     [name |-> <<"c","m","s","p","a","r">>, type |-> "control", flags |-> REV, bits |-> CMSPAR, mask |-> {}],
     [name |-> <<"c","s","5">>, type |-> "control", flags |-> {}, bits |-> CS5, mask |-> CSIZE],
     [name |-> <<"c","s","6">>, type |-> "control", flags |-> {}, bits |-> CS6, mask |-> CSIZE],
     [name |-> <<"c","s","7">>, type |-> "control", flags |-> {}, bits |-> CS7, mask |-> CSIZE],
     [name |-> <<"c","s","8">>, type |-> "control", flags |-> {}, bits |-> CS8, mask |-> CSIZE],
     [name |-> <<"h","u","p","c","l">>, type |-> "control", flags |-> REV, bits |-> HUPCL, mask |-> {}],
     [name |-> <<"h","u","p">>, type |-> "control", flags |-> REV \cup OMIT, bits |-> HUPCL, mask |-> {}],
     [name |-> <<"c","s","t","o","p","b">>, type |-> "control", flags |-> REV, bits |-> CSTOPB, mask |-> {}],
     [name |-> <<"c","r","e","a","d">>, type |-> "control", flags |-> SANE_SET \cup REV, bits |-> CREAD, mask |-> {}],
     [name |-> <<"c","l","o","c","a","l">>, type |-> "control", flags |-> REV, bits |-> CLOCAL, mask |-> {}],
     [name |-> <<"c","r","t","s","c","t","s">>, type |-> "control", flags |-> REV, bits |-> CRTSCTS, mask |-> {}],
     [name |-> <<"i","g","n","b","r","k">>, type |-> "input", flags |-> SANE_UNSET \cup REV, bits |-> IGNBRK, mask |-> {}],
     [name |-> <<"b","r","k","i","n","t">>, type |-> "input", flags |-> SANE_SET \cup REV, bits |-> BRKINT, mask |-> {}],
     [name |-> <<"i","g","n","p","a","r">>, type |-> "input", flags |-> REV, bits |-> IGNPAR, mask |-> {}],
     [name |-> <<"p","a","r","m","r","k">>, type |-> "input", flags |-> REV, bits |-> PARMRK, mask |-> {}],
     [name |-> <<"i","n","p","c","k">>, type |-> "input", flags |-> REV, bits |-> INPCK, mask |-> {}],
     [name |-> <<"i","s","t","r","i","p">>, type |-> "input", flags |-> REV, bits |-> ISTRIP, mask |-> {}],
     [name |-> <<"i","n","l","c","r">>, type |-> "input", flags |-> SANE_UNSET \cup REV, bits |-> INLCR, mask |-> {}],
     [name |-> <<"i","g","n","c","r">>, type |-> "input", flags |-> SANE_UNSET \cup REV, bits |-> IGNCR, mask |-> {}],
     [name |-> <<"i","c","r","n","l">>, type |-> "input", flags |-> SANE_SET \cup REV, bits |-> ICRNL, mask |-> {}],
     [name |-> <<"i","x","o","n">>, type |-> "input", flags |-> REV, bits |-> IXON, mask |-> {}],
     [name |-> <<"i","x","o","f","f">>, type |-> "input", flags |-> SANE_UNSET \cup REV, bits |-> IXOFF, mask |-> {}],
     [name |-> <<"t","a","n","d","e","m">>, type |-> "input", flags |-> REV \cup OMIT, bits |-> IXOFF, mask |-> {}],
     [name |-> <<"i","u","c","l","c">>, type |-> "input", flags |-> SANE_UNSET \cup REV, bits |-> IUCLC, mask |-> {}],
     [name |-> <<"i","x","a","n","y">>, type |-> "input", flags |-> SANE_UNSET \cup REV, bits |-> IXANY, mask |-> {}],
     [name |-> <<"i","m","a","x","b","e","l">>, type |-> "input", flags |-> SANE_SET \cup REV, bits |-> IMAXBEL, mask |-> {}],
     [name |-> <<"i","u","t","f","8">>, type |-> "input", flags |-> SANE_UNSET \cup REV, bits |-> IUTF8, mask |-> {}],
     [name |-> <<"o","p","o","s","t">>, type |-> "output", flags |-> SANE_SET \cup REV, bits |-> OPOST, mask |-> {}],
     [name |-> <<"o","l","c","u","c">>, type |-> "output", flags |-> SANE_UNSET \cup REV, bits |-> OLCUC, mask |-> {}],
     [name |-> <<"o","c","r","n","l">>, type |-> "output", flags |-> SANE_UNSET \cup REV, bits |-> OCRNL, mask |-> {}],
     [name |-> <<"o","n","l","c","r">>, type |-> "output", flags |-> SANE_SET \cup REV, bits |-> ONLCR, mask |-> {}],
     [name |-> <<"o","n","o","c","r">>, type |-> "output", flags |-> SANE_UNSET \cup REV, bits |-> ONOCR, mask |-> {}],
     [name |-> <<"o","n","l","r","e","t">>, type |-> "output", flags |-> SANE_UNSET \cup REV, bits |-> ONLRET, mask |-> {}],
     [name |-> <<"o","f","i","l","l">>, type |-> "output", flags |-> SANE_UNSET \cup REV, bits |-> OFILL, mask |-> {}],
     [name |-> <<"o","f","d","e","l">>, type |-> "output", flags |-> SANE_UNSET \cup REV, bits |-> OFDEL, mask |-> {}],
     [name |-> <<"n","l","1">>, type |-> "output", flags |-> SANE_UNSET, bits |-> NL1, mask |-> NLDLY],
     [name |-> <<"n","l","0">>, type |-> "output", flags |-> SANE_SET, bits |-> NL0, mask |-> NLDLY],
     [name |-> <<"c","r","3">>, type |-> "output", flags |-> SANE_UNSET, bits |-> CR3, mask |-> CRDLY],
     [name |-> <<"c","r","2">>, type |-> "output", flags |-> SANE_UNSET, bits |-> CR2, mask |-> CRDLY],
     [name |-> <<"c","r","1">>, type |-> "output", flags |-> SANE_UNSET, bits |-> CR1, mask |-> CRDLY],
     [name |-> <<"c","r","0">>, type |-> "output", flags |-> SANE_SET, bits |-> CR0, mask |-> CRDLY],
     [name |-> <<"t","a","b","3">>, type |-> "output", flags |-> SANE_UNSET, bits |-> TAB3, mask |-> TABDLY],
     [name |-> <<"t","a","b","2">>, type |-> "output", flags |-> SANE_UNSET, bits |-> TAB2, mask |-> TABDLY],
     [name |-> <<"t","a","b","1">>, type |-> "output", flags |-> SANE_UNSET, bits |-> TAB1, mask |-> TABDLY],
     [name |-> <<"t","a","b","0">>, type |-> "output", flags |-> SANE_SET, bits |-> TAB0, mask |-> TABDLY],
     [name |-> <<"b","s","1">>, type |-> "output", flags |-> SANE_UNSET, bits |-> BS1, mask |-> BSDLY],
     [name |-> <<"b","s","0">>, type |-> "output", flags |-> SANE_SET, bits |-> BS0, mask |-> BSDLY],
     [name |-> <<"v","t","1">>, type |-> "output", flags |-> SANE_UNSET, bits |-> VT1, mask |-> VTDLY],
     [name |-> <<"v","t","0">>, type |-> "output", flags |-> SANE_SET, bits |-> VT0, mask |-> VTDLY],
     [name |-> <<"f","f","1">>, type |-> "output", flags |-> SANE_UNSET, bits |-> FF1, mask |-> FFDLY],
     [name |-> <<"f","f","0">>, type |-> "output", flags |-> SANE_SET, bits |-> FF0, mask |-> FFDLY],
     [name |-> <<"i","s","i","g">>, type |-> "local", flags |-> SANE_SET \cup REV, bits |-> ISIG, mask |-> {}],
     [name |-> <<"i","c","a","n","o","n">>, type |-> "local", flags |-> SANE_SET \cup REV, bits |-> ICANON, mask |-> {}],
     [name |-> <<"i","e","x","t","e","n">>, type |-> "local", flags |-> SANE_SET \cup REV, bits |-> IEXTEN, mask |-> {}],
     [name |-> <<"e","c","h","o">>, type |-> "local", flags |-> SANE_SET \cup REV, bits |-> ECHO, mask |-> {}],
     [name |-> <<"e","c","h","o","e">>, type |-> "local", flags |-> SANE_SET \cup REV, bits |-> ECHOE, mask |-> {}],
     [name |-> <<"c","r","t","e","r","a","s","e">>, type |-> "local", flags |-> REV \cup OMIT, bits |-> ECHOE, mask |-> {}],
     [name |-> <<"e","c","h","o","k">>, type |-> "local", flags |-> SANE_SET \cup REV, bits |-> ECHOK, mask |-> {}],
     [name |-> <<"e","c","h","o","n","l">>, type |-> "local", flags |-> SANE_UNSET \cup REV, bits |-> ECHONL, mask |-> {}],
     [name |-> <<"n","o","f","l","s","h">>, type |-> "local", flags |-> SANE_UNSET \cup REV, bits |-> NOFLSH, mask |-> {}],
     [name |-> <<"x","c","a","s","e">>, type |-> "local", flags |-> SANE_UNSET \cup REV, bits |-> XCASE, mask |-> {}],
     [name |-> <<"t","o","s","t","o","p">>, type |-> "local", flags |-> SANE_UNSET \cup REV, bits |-> TOSTOP, mask |-> {}],
     [name |-> <<"e","c","h","o","p","r","t">>, type |-> "local", flags |-> SANE_UNSET \cup REV, bits |-> ECHOPRT, mask |-> {}],
     [name |-> <<"p","r","t","e","r","a","s","e">>, type |-> "local", flags |-> REV \cup OMIT, bits |-> ECHOPRT, mask |-> {}],
     [name |-> <<"e","c","h","o","c","t","l">>, type |-> "local", flags |-> SANE_SET \cup REV, bits |-> ECHOCTL, mask |-> {}],
     [name |-> <<"c","t","l","e","c","h","o">>, type |-> "local", flags |-> REV \cup OMIT, bits |-> ECHOCTL, mask |-> {}],
     [name |-> <<"e","c","h","o","k","e">>, type |-> "local", flags |-> SANE_SET \cup REV, bits |-> ECHOKE, mask |-> {}],
     [name |-> <<"c","r","t","k","i","l","l">>, type |-> "local", flags |-> REV \cup OMIT, bits |-> ECHOKE, mask |-> {}],
     [name |-> <<"f","l","u","s","h","o">>, type |-> "local", flags |-> SANE_UNSET \cup REV, bits |-> FLUSHO, mask |-> {}],
     [name |-> <<"e","x","t","p","r","o","c">>, type |-> "local", flags |-> SANE_UNSET \cup REV, bits |-> EXTPROC, mask |-> {}],
     [name |-> <<"e","v","e","n","p">>, type |-> "combination", flags |-> REV \cup OMIT, bits |-> {}, mask |-> {}],
     [name |-> <<"p","a","r","i","t","y">>, type |-> "combination", flags |-> REV \cup OMIT, bits |-> {}, mask |-> {}],
     [name |-> <<"o","d","d","p">>, type |-> "combination", flags |-> REV \cup OMIT, bits |-> {}, mask |-> {}],
     [name |-> <<"n","l">>, type |-> "combination", flags |-> REV \cup OMIT, bits |-> {}, mask |-> {}],
     [name |-> <<"e","k">>, type |-> "combination", flags |-> OMIT, bits |-> {}, mask |-> {}],
     [name |-> <<"s","a","n","e">>, type |-> "combination", flags |-> OMIT, bits |-> {}, mask |-> {}],
     [name |-> <<"c","o","o","k","e","d">>, type |-> "combination", flags |-> REV \cup OMIT, bits |-> {}, mask |-> {}],
     [name |-> <<"r","a","w">>, type |-> "combination", flags |-> REV \cup OMIT, bits |-> {}, mask |-> {}],
     [name |-> <<"p","a","s","s","8">>, type |-> "combination", flags |-> REV \cup OMIT, bits |-> {}, mask |-> {}],
     [name |-> <<"l","i","t","o","u","t">>, type |-> "combination", flags |-> REV \cup OMIT, bits |-> {}, mask |-> {}],
     [name |-> <<"c","b","r","e","a","k">>, type |-> "combination", flags |-> REV \cup OMIT, bits |-> {}, mask |-> {}],
     [name |-> <<"d","e","c","c","t","l","q">>, type |-> "combination", flags |-> REV \cup OMIT, bits |-> {}, mask |-> {}],
     [name |-> <<"t","a","b","s">>, type |-> "combination", flags |-> REV \cup OMIT, bits |-> {}, mask |-> {}],
     [name |-> <<"l","c","a","s","e">>, type |-> "combination", flags |-> REV \cup OMIT, bits |-> {}, mask |-> {}],
     [name |-> <<"L","C","A","S","E">>, type |-> "combination", flags |-> REV \cup OMIT, bits |-> {}, mask |-> {}],
     [name |-> <<"c","r","t">>, type |-> "combination", flags |-> OMIT, bits |-> {}, mask |-> {}],
     [name |-> <<"d","e","c">>, type |-> "combination", flags |-> OMIT, bits |-> {}, mask |-> {}] >>

control_info ==
  << [name |-> <<"i","n","t","r">>, saneval |-> CINTR, offset |-> VINTR],
     [name |-> <<"q","u","i","t">>, saneval |-> CQUIT, offset |-> VQUIT],
     [name |-> <<"e","r","a","s","e">>, saneval |-> CERASE, offset |-> VERASE],
     [name |-> <<"k","i","l","l">>, saneval |-> CKILL, offset |-> VKILL],
     [name |-> <<"e","o","f">>, saneval |-> CEOF, offset |-> VEOF],
     [name |-> <<"e","o","l">>, saneval |-> CEOL, offset |-> VEOL],
     [name |-> <<"e","o","l","2">>, saneval |-> CEOL2, offset |-> VEOL2],
     [name |-> <<"s","w","t","c","h">>, saneval |-> CSWTCH, offset |-> VSWTCH],
     [name |-> <<"s","t","a","r","t">>, saneval |-> CSTART, offset |-> VSTART],
     [name |-> <<"s","t","o","p">>, saneval |-> CSTOP, offset |-> VSTOP],
     [name |-> <<"s","u","s","p">>, saneval |-> CSUSP, offset |-> VSUSP],
     [name |-> <<"r","p","r","n","t">>, saneval |-> CRPRNT, offset |-> VREPRINT],
     [name |-> <<"w","e","r","a","s","e">>, saneval |-> CWERASE, offset |-> VWERASE],
     [name |-> <<"l","n","e","x","t">>, saneval |-> CLNEXT, offset |-> VLNEXT],
     [name |-> <<"f","l","u","s","h">>, saneval |-> CFLUSHO, offset |-> VFLUSHO],
     [name |-> <<"d","i","s","c","a","r","d">>, saneval |-> CFLUSHO, offset |-> VFLUSHO],
     [name |-> <<"m","i","n">>, saneval |-> 1, offset |-> VMIN],
     [name |-> <<"t","i","m","e">>, saneval |-> 0, offset |-> VTIME] >>

(* ------------------------------------------------------------------ *)
(* Mode snapshots (struct termios)                                     *)
(* ------------------------------------------------------------------ *)
Slots == 0 .. (NCCS - 1)

\* struct termios mode = {0}
ZeroMode ==
  [c_iflag |-> {}, c_oflag |-> {}, c_cflag |-> {}, c_lflag |-> {},
   c_line |-> 0, c_cc |-> [i \in Slots |-> 0],
   c_ispeed |-> 0, c_ospeed |-> 0]

HasFlag(info, f) == (info.flags \cap f) # {}

\* mode_type_flag: the flag word a registry entry edits ("none" for a
\* combination, where the C code returns a null pointer)
mode_type_flag(type) ==
  CASE type = "control" -> "c_cflag"
    [] type = "input" -> "c_iflag"
    [] type = "output" -> "c_oflag"
    [] type = "local" -> "c_lflag"
    [] type = "combination" -> "none"

\* the word selected by mode_type_flag, read from a snapshot
FlagWord(type, mode) ==
  CASE type = "control" -> mode.c_cflag
    [] type = "input" -> mode.c_iflag
    [] type = "output" -> mode.c_oflag
    [] type = "local" -> mode.c_lflag

\* the snapshot with the word selected by mode_type_flag replaced
WithFlagWord(type, mode, w) ==
  CASE type = "control" -> [mode EXCEPT !.c_cflag = w]
    [] type = "input" -> [mode EXCEPT !.c_iflag = w]
    [] type = "output" -> [mode EXCEPT !.c_oflag = w]
    [] type = "local" -> [mode EXCEPT !.c_lflag = w]

(* ------------------------------------------------------------------ *)
(* Mutation engine                                                     *)
(* ------------------------------------------------------------------ *)
Impls == {"gemini", "gpt4o"}

\* the least and the greatest member of a set of positive numbers, 0 for
\* the empty set
Min0(W) == IF W = {} THEN 0 ELSE CHOOSE i \in W : \A j \in W : i <= j
Max0(W) == IF W = {} THEN 0 ELSE CHOOSE i \in W : \A j \in W : j <= i

\* a faulty first loop of sane_mode: the control characters are left
sane_cc_untouched(cc) == cc

\* sane_mode, first loop: c_cc[offset] = saneval for every entry of
\* control_info, in table order (VMIN /= VEOF on this target, so the loop
\* does not stop at min).  The last entry naming a slot decides its value.
sane_cc(cc) ==
  LET Value(s, last) == IF last = 0 THEN cc[s] ELSE control_info[last].saneval
  IN [s \in Slots |->
        Value(s, Max0({i \in 1 .. Len(control_info) : control_info[i].offset = s}))]

\* the entries the second loop of sane_mode edits in the word of a type
SaneEntries(type) ==
  {i \in 1 .. Len(mode_info) :
     /\ mode_info[i].type = type
     /\ ~HasFlag(mode_info[i], NO_SETATTR)
     /\ HasFlag(mode_info[i], SANE_SET \cup SANE_UNSET)}

\* a faulty sane_mode loop: the SANE_UNSET entries are passed over
sane_word_set_only(type, w) ==
  LET Bit(b, last) == IF last = 0 THEN b \in w ELSE b \in mode_info[last].bits
      Word(entries) ==
        {b \in 0 .. (TCFLAG_BITS - 1) :
           Bit(b, Max0({i \in entries : b \in (mode_info[i].mask \cup mode_info[i].bits)}))}
  IN Word({i \in SaneEntries(type) : HasFlag(mode_info[i], SANE_SET)})

\* sane_mode, second loop, on one flag word: in table order a SANE_SET
\* entry does w = (w & ~mask) | bits and a SANE_UNSET entry does
\* w &= ~(mask | bits).  Each bit ends as the last entry writing it left it.
sane_word(type, w) ==
  LET Bit(b, last) == IF last = 0 THEN b \in w
                      ELSE HasFlag(mode_info[last], SANE_SET) /\ b \in mode_info[last].bits
      Word(entries) ==
        {b \in 0 .. (TCFLAG_BITS - 1) :
           Bit(b, Max0({i \in entries : b \in (mode_info[i].mask \cup mode_info[i].bits)}))}
  IN Word(SaneEntries(type))

sane_mode(mode) ==
  [mode EXCEPT !.c_cc = sane_cc(mode.c_cc),
               !.c_cflag = sane_word("control", @),
               !.c_iflag = sane_word("input", @),
               !.c_oflag = sane_word("output", @),
               !.c_lflag = sane_word("local", @)]

\* a faulty raw / cooked: cooked does not turn OPOST on again
set_raw_cooked_without_opost(impl, mode, cooked) ==
  IF cooked
    THEN [mode EXCEPT
            !.c_iflag = @ \cup BRKINT \cup IGNPAR \cup ISTRIP \cup ICRNL \cup IXON,
            !.c_lflag = @ \cup ISIG \cup ICANON]
    ELSE [mode EXCEPT
            !.c_iflag = {},
            !.c_oflag = @ \ OPOST,
            !.c_lflag = @ \ (ISIG \cup ICANON),
            !.c_cc[VMIN] = 1,
            !.c_cc[VTIME] = 0]

\* raw / cooked.  gemini: set_raw_cooked_logic (the eof/eol reset is compiled
\* out, VMIN /= VEOF; raw also clears XCASE).  gpt4o: the raw/cooked branch of
\* apply_combination_mode (eof/eol always reset; raw leaves XCASE).
set_raw_cooked_logic(impl, mode, cooked) ==
  IF cooked
    THEN LET m == [mode EXCEPT
                     !.c_iflag = @ \cup BRKINT \cup IGNPAR \cup ISTRIP \cup ICRNL \cup IXON,
                     !.c_oflag = @ \cup OPOST,
                     !.c_lflag = @ \cup ISIG \cup ICANON]
         IN IF impl = "gpt4o"
              THEN [m EXCEPT !.c_cc[VEOF] = CEOF, !.c_cc[VEOL] = CEOL]
              ELSE m
    ELSE [mode EXCEPT
            !.c_iflag = {},
            !.c_oflag = @ \ OPOST,
            !.c_lflag = IF impl = "gemini" THEN @ \ (ISIG \cup ICANON \cup XCASE)
                                           ELSE @ \ (ISIG \cup ICANON),
            !.c_cc[VMIN] = 1,
            !.c_cc[VTIME] = 0]

\* a faulty -evenp: parity is switched off and the character size is kept
set_parity_mode_keeping_size(mode, reversed) ==
  IF reversed
    THEN [mode EXCEPT !.c_cflag = @ \ PARENB]
    ELSE [mode EXCEPT !.c_cflag = (@ \ (PARODD \cup CSIZE)) \cup PARENB \cup CS7]

\* evenp, parity
set_parity_mode(mode, reversed) ==
  IF reversed
    THEN [mode EXCEPT !.c_cflag = (@ \ (PARENB \cup CSIZE)) \cup CS8]
    ELSE [mode EXCEPT !.c_cflag = (@ \ (PARODD \cup CSIZE)) \cup PARENB \cup CS7]

set_oddp_mode(mode, reversed) ==
  IF reversed
    THEN [mode EXCEPT !.c_cflag = (@ \ (PARENB \cup CSIZE)) \cup CS8]
    ELSE [mode EXCEPT !.c_cflag = (@ \ CSIZE) \cup CS7 \cup PARODD \cup PARENB]

\* a faulty nl: -nl leaves OCRNL and ONLRET as they are
set_nl_mode_keeping_onlret(mode, reversed) ==
  IF reversed
    THEN [mode EXCEPT !.c_iflag = (@ \cup ICRNL) \ (INLCR \cup IGNCR),
                      !.c_oflag = @ \cup ONLCR]
    ELSE [mode EXCEPT !.c_iflag = @ \ ICRNL,
                      !.c_oflag = @ \ ONLCR]

set_nl_mode(mode, reversed) ==
  IF reversed
    THEN [mode EXCEPT !.c_iflag = (@ \cup ICRNL) \ (INLCR \cup IGNCR),
                      !.c_oflag = (@ \cup ONLCR) \ (OCRNL \cup ONLRET)]
    ELSE [mode EXCEPT !.c_iflag = @ \ ICRNL,
                      !.c_oflag = @ \ ONLCR]

set_ek_mode(mode, reversed) ==
  [mode EXCEPT !.c_cc[VERASE] = CERASE, !.c_cc[VKILL] = CKILL]

set_cbreak_mode(mode, reversed) ==
  IF reversed
    THEN [mode EXCEPT !.c_lflag = @ \cup ICANON]
    ELSE [mode EXCEPT !.c_lflag = @ \ ICANON]

set_pass8_mode(mode, reversed) ==
  IF reversed
    THEN [mode EXCEPT !.c_cflag = (@ \ CSIZE) \cup CS7 \cup PARENB,
                      !.c_iflag = @ \cup ISTRIP]
    ELSE [mode EXCEPT !.c_cflag = (@ \ (PARENB \cup CSIZE)) \cup CS8,
                      !.c_iflag = @ \ ISTRIP]

set_litout_mode(mode, reversed) ==
  IF reversed
    THEN [mode EXCEPT !.c_cflag = (@ \ CSIZE) \cup CS7 \cup PARENB,
                      !.c_iflag = @ \cup ISTRIP,
                      !.c_oflag = @ \cup OPOST]
    ELSE [mode EXCEPT !.c_cflag = (@ \ (PARENB \cup CSIZE)) \cup CS8,
                      !.c_iflag = @ \ ISTRIP,
                      !.c_oflag = @ \ OPOST]

set_decctlq_mode(mode, reversed) ==
  IF reversed
    THEN [mode EXCEPT !.c_iflag = @ \cup IXANY]
    ELSE [mode EXCEPT !.c_iflag = @ \ IXANY]

set_tabs_mode(mode, reversed) ==
  IF reversed
    THEN [mode EXCEPT !.c_oflag = (@ \ TABDLY) \cup TAB3]
    ELSE [mode EXCEPT !.c_oflag = (@ \ TABDLY) \cup TAB0]

set_lcase_mode(mode, reversed) ==
  IF reversed
    THEN [mode EXCEPT !.c_lflag = @ \ XCASE,
                      !.c_iflag = @ \ IUCLC,
                      !.c_oflag = @ \ OLCUC]
    ELSE [mode EXCEPT !.c_lflag = @ \cup XCASE,
                      !.c_iflag = @ \cup IUCLC,
                      !.c_oflag = @ \cup OLCUC]

set_crt_mode(mode, reversed) ==
  [mode EXCEPT !.c_lflag = @ \cup ECHOE \cup ECHOCTL \cup ECHOKE]

set_dec_mode(mode, reversed) ==
  [mode EXCEPT !.c_cc[VINTR] = 3,
               !.c_cc[VERASE] = 127,
               !.c_cc[VKILL] = 21,
               !.c_lflag = @ \cup ECHOE \cup ECHOCTL \cup ECHOKE,
               !.c_iflag = @ \ IXANY]

\* names as the registry spells them
N_evenp == <<"e","v","e","n","p">>
N_parity == <<"p","a","r","i","t","y">>
N_oddp == <<"o","d","d","p">>
N_nl == <<"n","l">>
N_ek == <<"e","k">>
N_sane == <<"s","a","n","e">>
N_cooked == <<"c","o","o","k","e","d">>
N_raw == <<"r","a","w">>
N_pass8 == <<"p","a","s","s","8">>
N_litout == <<"l","i","t","o","u","t">>
N_cbreak == <<"c","b","r","e","a","k">>
N_decctlq == <<"d","e","c","c","t","l","q">>
N_tabs == <<"t","a","b","s">>
N_lcase == <<"l","c","a","s","e">>
N_LCASE == <<"L","C","A","S","E">>
N_crt == <<"c","r","t">>
N_dec == <<"d","e","c">>

\* The dispatch by name of a combination entry: gemini's combination_modes
\* table, gpt4o's apply_combination_mode chain.  Both resolve every
\* combination name of the registry to the same handler.
apply_combination_mode(impl, name, mode, reversed) ==
  CASE name = N_evenp \/ name = N_parity -> set_parity_mode(mode, reversed)
    [] name = N_oddp -> set_oddp_mode(mode, reversed)
    [] name = N_nl -> set_nl_mode(mode, reversed)
    [] name = N_ek -> set_ek_mode(mode, reversed)
    [] name = N_sane -> sane_mode(mode)
    [] name = N_cbreak -> set_cbreak_mode(mode, reversed)
    [] name = N_pass8 -> set_pass8_mode(mode, reversed)
    [] name = N_litout -> set_litout_mode(mode, reversed)
    [] name = N_raw -> set_raw_cooked_logic(impl, mode, reversed)
    [] name = N_cooked -> set_raw_cooked_logic(impl, mode, ~reversed)
    [] name = N_decctlq -> set_decctlq_mode(mode, reversed)
    [] name = N_tabs -> set_tabs_mode(mode, reversed)
    [] name = N_lcase \/ name = N_LCASE -> set_lcase_mode(mode, reversed)
    [] name = N_crt -> set_crt_mode(mode, reversed)
    [] name = N_dec -> set_dec_mode(mode, reversed)
    [] OTHER -> mode

\* a faulty set_mode: an entry that is not reversible is negated all the same
set_mode_negating_any(impl, info, reversed, mode) ==
  IF mode_type_flag(info.type) = "none"
    THEN [ok |-> TRUE, mode |-> apply_combination_mode(impl, info.name, mode, reversed)]
  ELSE [ok |-> TRUE,
        mode |-> WithFlagWord(info.type, mode,
                   IF reversed
                     THEN FlagWord(info.type, mode) \ (info.mask \cup info.bits)
                     ELSE (FlagWord(info.type, mode) \ info.mask) \cup info.bits)]

\* a faulty set_mode: the negation clears the mask and leaves the bits
set_mode_keeping_bits(impl, info, reversed, mode) ==
  IF reversed /\ ~HasFlag(info, REV)
    THEN [ok |-> FALSE, mode |-> mode]
  ELSE IF mode_type_flag(info.type) = "none"
    THEN [ok |-> TRUE, mode |-> apply_combination_mode(impl, info.name, mode, reversed)]
  ELSE [ok |-> TRUE,
        mode |-> WithFlagWord(info.type, mode,
                   IF reversed THEN FlagWord(info.type, mode) \ info.mask
                               ELSE (FlagWord(info.type, mode) \ info.mask) \cup info.bits)]

\* set_mode: [ok |-> the C function's result, mode |-> the snapshot after]
set_mode(impl, info, reversed, mode) ==
  IF reversed /\ ~HasFlag(info, REV)
    THEN [ok |-> FALSE, mode |-> mode]
  ELSE IF mode_type_flag(info.type) = "none"
    THEN [ok |-> TRUE, mode |-> apply_combination_mode(impl, info.name, mode, reversed)]
  ELSE
    LET w == FlagWord(info.type, mode)
    IN [ok |-> TRUE,
        mode |-> WithFlagWord(info.type, mode,
                   IF reversed THEN w \ (info.mask \cup info.bits)
                               ELSE (w \ info.mask) \cup info.bits)]

(* ------------------------------------------------------------------ *)
(* Characters and C strings                                            *)
(* ------------------------------------------------------------------ *)
\* the terminating '\0' of a C string (every real character is a string
\* of length one)
NUL == "NUL"

\* s[i] of the C string s, 1-based; the terminator at Len(s) + 1
CharAt(s, i) == IF i >= 1 /\ i <= Len(s) THEN s[i] ELSE NUL

HexChars == <<"0","1","2","3","4","5","6","7","8","9","a","b","c","d","e","f">>
UpperHex == <<"0","1","2","3","4","5","6","7","8","9","A","B","C","D","E","F">>

IsDigit(c) == \E i \in 1 .. 10 : HexChars[i] = c
IsHexDigit(c) == \E i \in 1 .. 16 : HexChars[i] = c \/ UpperHex[i] = c
HexVal(c) == (CHOOSE i \in 1 .. 16 : HexChars[i] = c \/ UpperHex[i] = c) - 1
IsSpace(c) == c \in {" ", "\t", "\n"}

RECURSIVE SkipSpace(_, _)
SkipSpace(s, i) == IF IsSpace(CharAt(s, i)) THEN SkipSpace(s, i + 1) ELSE i

RECURSIVE SkipHex(_, _)
SkipHex(s, i) == IF IsHexDigit(CharAt(s, i)) THEN SkipHex(s, i + 1) ELSE i

RECURSIVE SkipDigits(_, _)
SkipDigits(s, i) == IF IsDigit(CharAt(s, i)) THEN SkipDigits(s, i + 1) ELSE i

\* the 1 bits of a small number
BitsOf(n) == {b \in 0 .. 7 : (n \div (2 ^ b)) % 2 = 1}

\* the number a word of at most 8 bits stands for
RECURSIVE NumOf(_)
NumOf(w) == IF w = {} THEN 0
            ELSE LET b == CHOOSE x \in w : TRUE IN (2 ^ b) + NumOf(w \ {b})

\* the word written by the hex digits s[from .. to-1]
HexWord(s, from, to) ==
  UNION {{4 * (to - 1 - i) + b : b \in BitsOf(HexVal(s[i]))} : i \in from .. (to - 1)}

\* -w as an unsigned long (two's complement)
NegWord(w) ==
  LET From(t) == {t} \cup {i \in (t + 1) .. (ULONG_BITS - 1) : i \notin w}
  IN IF w = {} THEN {} ELSE From(CHOOSE x \in w : \A y \in w : x <= y)

\* strtoul (s + start - 1, &p, 16): optional white space, optional sign,
\* optional 0x, hex digits.  end = the index p points at (= start when no
\* digits were converted), word = the value, erange = errno is ERANGE.
strtoul16(s, start) ==
  LET Result(neg, i2, j, w) ==
        IF j = i2 THEN [end |-> start, word |-> {}, erange |-> FALSE]
        ELSE IF \E b \in w : b >= ULONG_BITS
          THEN [end |-> j, word |-> 0 .. (ULONG_BITS - 1), erange |-> TRUE]
        ELSE [end |-> j, word |-> IF neg THEN NegWord(w) ELSE w, erange |-> FALSE]
      Word(neg, i2, j) == Result(neg, i2, j, HexWord(s, i2, j))
      Digits(neg, i2) == Word(neg, i2, SkipHex(s, i2))
      Prefix(neg, i1) ==
        Digits(neg, IF CharAt(s, i1) = "0" /\ CharAt(s, i1 + 1) \in {"x", "X"}
                       /\ IsHexDigit(CharAt(s, i1 + 2))
                      THEN i1 + 2 ELSE i1)
      Sign(i0) == Prefix(CharAt(s, i0) = "-",
                         IF CharAt(s, i0) \in {"+", "-"} THEN i0 + 1 ELSE i0)
  IN Sign(SkipSpace(s, start))

(* ------------------------------------------------------------------ *)
(* Recoverable hex codec                                               *)
(* ------------------------------------------------------------------ *)
\* printf ("%lx", w)
RECURSIVE HexDigitsFrom(_, _)
HexDigitsFrom(w, nib) ==
  <<HexChars[NumOf({b \in 0 .. 3 : (4 * nib + b) \in w}) + 1]>>
    \o (IF nib = 0 THEN <<>> ELSE HexDigitsFrom(w, nib - 1))

FormatHex(w) ==
  IF w = {} THEN <<"0">>
  ELSE LET top == CHOOSE x \in w : \A y \in w : y <= x
       IN HexDigitsFrom(w, top \div 4)

RECURSIVE FormatCc(_, _)
FormatCc(cc, i) ==
  IF i >= NCCS THEN <<>>
  ELSE <<":">> \o FormatHex(BitsOf(cc[i])) \o FormatCc(cc, i + 1)

\* display_recoverable: the line it prints
display_recoverable(mode) ==
  FormatHex(mode.c_iflag) \o <<":">> \o FormatHex(mode.c_oflag) \o <<":">>
    \o FormatHex(mode.c_cflag) \o <<":">> \o FormatHex(mode.c_lflag)
    \o FormatCc(mode.c_cc, 0) \o <<"\n">>

\* the token a saved line is given back as (the newline is not part of it)
DropLast(line) == SubSeq(line, 1, Len(line) - 1)
SavedToken(mode) == DropLast(display_recoverable(mode))

FlagFields == <<"c_iflag", "c_oflag", "c_cflag", "c_lflag">>

\* a faulty store: c_cflag and c_lflag are taken in the wrong order
SetFieldCrossed(mode, f, w) ==
  CASE f = "c_iflag" -> [mode EXCEPT !.c_iflag = w]
    [] f = "c_oflag" -> [mode EXCEPT !.c_oflag = w]
    [] f = "c_cflag" -> [mode EXCEPT !.c_lflag = w]
    [] f = "c_lflag" -> [mode EXCEPT !.c_cflag = w]

SetField(mode, f, w) ==
  CASE f = "c_iflag" -> [mode EXCEPT !.c_iflag = w]
    [] f = "c_oflag" -> [mode EXCEPT !.c_oflag = w]
    [] f = "c_cflag" -> [mode EXCEPT !.c_cflag = w]
    [] f = "c_lflag" -> [mode EXCEPT !.c_lflag = w]

\* gemini: strtoul_tcflag_t / strtoul_cc_t store only a converted, correctly
\* delimited, in-range field.  The two loops write into the
\* caller's snapshot as they go, as recover_mode does.
RECURSIVE gemini_recover_cc(_, _, _, _)
gemini_recover_cc(s, pos, i, mode) ==
  LET Field(r) ==
        IF r.end = pos \/ r.erange
           \/ CharAt(s, r.end) # (IF i < NCCS - 1 THEN ":" ELSE NUL)
           \/ (\E b \in r.word : b >= 8)
          THEN [ok |-> FALSE, mode |-> mode]
          ELSE gemini_recover_cc(s, r.end + 1, i + 1,
                                 [mode EXCEPT !.c_cc[i] = NumOf(r.word)])
  IN IF i >= NCCS THEN [ok |-> TRUE, mode |-> mode]
     ELSE Field(strtoul16(s, pos))

RECURSIVE gemini_recover_flags(_, _, _, _)
gemini_recover_flags(s, pos, f, mode) ==
  LET Field(r) ==
        IF r.end = pos \/ CharAt(s, r.end) # ":" \/ r.erange
           \/ (\E b \in r.word : b >= TCFLAG_BITS)
          THEN [ok |-> FALSE, mode |-> mode]
          ELSE gemini_recover_flags(s, r.end + 1, f + 1,
                                    SetField(mode, FlagFields[f], r.word))
  IN IF f > Len(FlagFields) THEN gemini_recover_cc(s, pos, 0, mode)
     ELSE Field(strtoul16(s, pos))

\* gpt4o: parse_tcflag / parse_cc test neither "no digits" nor the range (the
\* value is truncated by the cast), and parse_cc also takes '\0' for the
\* delimiter and then steps past it.  s is the memory image: the token, its
\* terminator, and what lies behind it.
RECURSIVE gpt4o_recover_cc(_, _, _, _)
gpt4o_recover_cc(s, pos, i, mode) ==
  LET Field(r) ==
        IF r.erange
           \/ CharAt(s, r.end) \notin {IF i < NCCS - 1 THEN ":" ELSE NUL, NUL}
          THEN [ok |-> FALSE, mode |-> mode]
          ELSE gpt4o_recover_cc(s, r.end + 1, i + 1,
                                [mode EXCEPT !.c_cc[i] = NumOf(r.word \cap (0 .. 7))])
  IN IF i >= NCCS THEN [ok |-> TRUE, mode |-> mode]
     ELSE Field(strtoul16(s, pos))

RECURSIVE gpt4o_recover_flags(_, _, _, _)
gpt4o_recover_flags(s, pos, f, mode) ==
  LET Field(r) ==
        IF r.erange \/ CharAt(s, r.end) # ":"
          THEN [ok |-> FALSE, mode |-> mode]
          ELSE gpt4o_recover_flags(s, r.end + 1, f + 1,
                 SetField(mode, FlagFields[f], r.word \cap (0 .. (TCFLAG_BITS - 1))))
  IN IF f > Len(FlagFields) THEN gpt4o_recover_cc(s, pos, 0, mode)
     ELSE Field(strtoul16(s, pos))

\* recover_mode (arg, mode).  beyond = the bytes behind arg's terminator,
\* which only gpt4o can reach (a read outside the string: any content).
recover_mode(impl, arg, beyond, mode) ==
  IF impl = "gemini"
    THEN gemini_recover_flags(arg, 1, 1, mode)
    ELSE gpt4o_recover_flags(arg \o <<NUL>> \o beyond, 1, 1, mode)

(* ------------------------------------------------------------------ *)
(* Value codecs                                                        *)
(* ------------------------------------------------------------------ *)
\* the printable ASCII characters, code 32 first (code 96 by name)
Ascii ==
  <<
     " ", "!", "\"", "#", "$", "%", "&", "'", "(", ")", "*", "+", ",", "-", ".", "/",
     "0", "1", "2", "3", "4", "5", "6", "7", "8", "9", ":", ";", "<", "=", ">", "?",
     "@", "A", "B", "C", "D", "E", "F", "G", "H", "I", "J", "K", "L", "M", "N", "O",
     "P", "Q", "R", "S", "T", "U", "V", "W", "X", "Y", "Z", "[", "\\", "]", "^", "_",
     "BACKQUOTE", "a", "b", "c", "d", "e", "f", "g", "h", "i", "j", "k", "l", "m", "n", "o",
     "p", "q", "r", "s", "t", "u", "v", "w", "x", "y", "z", "{", "|", "}", "~" >>

\* to_uchar (c) for a character of a token; 0 for the terminator
to_uchar(c) ==
  IF c = NUL THEN 0
  ELSE 31 + (CHOOSE i \in 1 .. Len(Ascii) : Ascii[i] = c)

\* the character of a code in 32 .. 126
CharOf(code) == Ascii[code - 31]

\* the value of the digits s[from .. to-1] in a base (at most MaxDigits of
\* them, see NumberTooLong)
RECURSIVE DigitsValue(_, _, _, _)
DigitsValue(s, from, to, base) ==
  IF to <= from THEN 0
  ELSE base * DigitsValue(s, from, to - 1, base) + HexVal(s[to - 1])

\* numbers longer than this are not evaluated by the model
MaxDigits == 7
NumberTooLong(from, to) == to - from > MaxDigits

\* speedlist.h: the speeds the target names, as <<value, speed_t>>
SpeedList ==
  << <<0, 0>>, <<50, 1>>, <<75, 2>>, <<110, 3>>, <<134, 4>>, <<150, 5>>,
     <<200, 6>>, <<300, 7>>, <<600, 8>>, <<1200, 9>>, <<1800, 10>>,
     <<2400, 11>>, <<4800, 12>>, <<9600, 13>>, <<19200, 14>>, <<38400, 15>>,
     <<57600, 4097>>, <<115200, 4098>> >>

B19200 == SpeedList[15][2]
B38400 == SpeedList[16][2]

value_to_baud(value) ==
  IF \E i \in 1 .. Len(SpeedList) : SpeedList[i][1] = value
    THEN SpeedList[CHOOSE i \in 1 .. Len(SpeedList) : SpeedList[i][1] = value][2]
    ELSE BAUD_INVALID

baud_to_value(speed) ==
  IF \E i \in 1 .. Len(SpeedList) : SpeedList[i][2] = speed
    THEN SpeedList[CHOOSE i \in 1 .. Len(SpeedList) : SpeedList[i][2] = speed][1]
    ELSE 0

N_exta == <<"e","x","t","a">>
N_extb == <<"e","x","t","b">>

RECURSIVE SkipZeros(_, _)
SkipZeros(s, i) == IF CharAt(s, i) = "0" THEN SkipZeros(s, i + 1) ELSE i

RECURSIVE SkipOct(_, _)
SkipOct(s, i) ==
  IF CharAt(s, i) \in {"0", "1", "2", "3", "4", "5", "6", "7"}
    THEN SkipOct(s, i + 1) ELSE i

\* a faulty string_to_baud: one half is always rounded up
string_to_baud_half_up(arg) ==
  LET \* ".5" and then zeroes up to index z
      Half(value, z) ==
        IF CharAt(arg, z) = NUL THEN value_to_baud(value + 1)
        ELSE IF CharAt(arg, SkipDigits(arg, z)) # NUL THEN BAUD_INVALID
        ELSE value_to_baud(value + 1)
      \* the fraction: c is its first character, at index p.  A c that is
      \* no digit rounds up and then is the garbage that ends the parse.
      Fraction(value, c, p) ==
        IF c = NUL THEN value_to_baud(value)
        ELSE IF ~IsDigit(c) THEN BAUD_INVALID
        ELSE IF HexVal(c) = 5 THEN Half(value, SkipZeros(arg, p + 1))
        ELSE IF CharAt(arg, SkipDigits(arg, p)) # NUL THEN BAUD_INVALID
        ELSE value_to_baud(IF HexVal(c) > 5 THEN value + 1 ELSE value)
      \* value = strtoul's result, ep = where it stopped
      After(a, value, ep) ==
        IF CharAt(arg, ep) = "." THEN Fraction(value, CharAt(arg, ep + 1), ep + 1)
        ELSE IF CharAt(arg, ep) # NUL
          THEN IF SubSeq(arg, a, Len(arg)) = N_exta THEN B19200
               ELSE IF SubSeq(arg, a, Len(arg)) = N_extb THEN B38400
               ELSE BAUD_INVALID
        ELSE value_to_baud(value)
      \* strtoul (arg, &ep, 10) on the digits arg[d0 .. d1-1]
      Number(a, d0, d1) ==
        IF NumberTooLong(d0, d1) THEN BAUD_INVALID
        ELSE After(a, DigitsValue(arg, d0, d1, 10), IF d1 = d0 THEN a ELSE d1)
      Digits(a, d0) == Number(a, d0, SkipDigits(arg, d0))
      \* a = the first character that is no white space
      Sign(a) ==
        IF CharAt(arg, a) = "-" THEN BAUD_INVALID
        ELSE Digits(a, IF CharAt(arg, a) = "+" THEN a + 1 ELSE a)
  IN Sign(SkipSpace(arg, 1))

\* string_to_baud
string_to_baud(arg) ==
  LET \* ".5" and then zeroes up to index z
      Half(value, z) ==
        IF CharAt(arg, z) = NUL THEN value_to_baud(value + (value % 2))
        ELSE IF CharAt(arg, SkipDigits(arg, z)) # NUL THEN BAUD_INVALID
        ELSE value_to_baud(value + 1)
      \* the fraction: c is its first character, at index p.  A c that is
      \* no digit rounds up and then is the garbage that ends the parse.
      Fraction(value, c, p) ==
        IF c = NUL THEN value_to_baud(value)
        ELSE IF ~IsDigit(c) THEN BAUD_INVALID
        ELSE IF HexVal(c) = 5 THEN Half(value, SkipZeros(arg, p + 1))
        ELSE IF CharAt(arg, SkipDigits(arg, p)) # NUL THEN BAUD_INVALID
        ELSE value_to_baud(IF HexVal(c) > 5 THEN value + 1 ELSE value)
      \* value = strtoul's result, ep = where it stopped
      After(a, value, ep) ==
        IF CharAt(arg, ep) = "." THEN Fraction(value, CharAt(arg, ep + 1), ep + 1)
        ELSE IF CharAt(arg, ep) # NUL
          THEN IF SubSeq(arg, a, Len(arg)) = N_exta THEN B19200
               ELSE IF SubSeq(arg, a, Len(arg)) = N_extb THEN B38400
               ELSE BAUD_INVALID
        ELSE value_to_baud(value)
      \* strtoul (arg, &ep, 10) on the digits arg[d0 .. d1-1]
      Number(a, d0, d1) ==
        IF NumberTooLong(d0, d1) THEN BAUD_INVALID
        ELSE After(a, DigitsValue(arg, d0, d1, 10), IF d1 = d0 THEN a ELSE d1)
      Digits(a, d0) == Number(a, d0, SkipDigits(arg, d0))
      \* a = the first character that is no white space
      Sign(a) ==
        IF CharAt(arg, a) = "-" THEN BAUD_INVALID
        ELSE Digits(a, IF CharAt(arg, a) = "+" THEN a + 1 ELSE a)
  IN Sign(SkipSpace(arg, 1))

\* integer_arg (s, maxval): xnumtoumax with base 0, minimum 0 and the suffixes
\* "bB".  ok = FALSE is the fatal "invalid integer argument" exit.
integer_arg(s, maxval) ==
  LET Bad == [ok |-> FALSE, value |-> 0]
      Scaled(n, mult, after) ==
        IF after # NUL THEN Bad
        ELSE IF n > maxval \div mult THEN Bad
        ELSE [ok |-> TRUE, value |-> n * mult]
      \* p = where strtoumax stopped
      Suffix(n, p) ==
        IF CharAt(s, p) = "b" THEN Scaled(n, 512, CharAt(s, p + 1))
        ELSE IF CharAt(s, p) = "B" THEN Scaled(n, 1024, CharAt(s, p + 1))
        ELSE Scaled(n, 1, CharAt(s, p))
      \* the digits s[i2 .. j-1]; with none, strtoumax stops at s itself and a
      \* lone suffix stands for 1
      Digits(base, i2, j) ==
        IF NumberTooLong(i2, j) THEN Bad
        ELSE IF j = i2
          THEN IF CharAt(s, 1) \in {"b", "B"} THEN Suffix(1, 1) ELSE Bad
        ELSE Suffix(DigitsValue(s, i2, j, base), j)
      Base(i1) ==
        IF CharAt(s, i1) = "0" /\ CharAt(s, i1 + 1) \in {"x", "X"}
           /\ IsHexDigit(CharAt(s, i1 + 2))
          THEN Digits(16, i1 + 2, SkipHex(s, i1 + 2))
        ELSE IF CharAt(s, i1) = "0" THEN Digits(8, i1, SkipOct(s, i1))
        ELSE Digits(10, i1, SkipDigits(s, i1))
      Sign(q) ==
        IF CharAt(s, q) = "-" THEN Bad
        ELSE Base(IF CharAt(s, q) = "+" THEN q + 1 ELSE q)
  IN Sign(SkipSpace(s, 1))

(* ------------------------------------------------------------------ *)
(* Control characters and speeds                                       *)
(* ------------------------------------------------------------------ *)
N_drain == <<"d","r","a","i","n">>
N_ispeed == <<"i","s","p","e","e","d">>
N_ospeed == <<"o","s","p","e","e","d">>
N_rows == <<"r","o","w","s">>
N_cols == <<"c","o","l","s">>
N_columns == <<"c","o","l","u","m","n","s">>
N_size == <<"s","i","z","e">>
N_line == <<"l","i","n","e">>
N_speed == <<"s","p","e","e","d">>
N_min == <<"m","i","n">>
N_time == <<"t","i","m","e">>
N_undef == <<"u","n","d","e","f">>
N_undef_caret == <<"^","-">>

\* which branch of set_control_char an argument takes in
\* stty-gemini-2.5-pro.c
gemini_cc_kind(info, arg) ==
  IF info.name = N_min \/ info.name = N_time THEN "number"
  ELSE IF CharAt(arg, 1) = NUL \/ CharAt(arg, 2) = NUL THEN "char"
  ELSE IF arg = N_undef_caret \/ arg = N_undef THEN "undef"
  ELSE IF CharAt(arg, 1) = "^" /\ CharAt(arg, 2) = "?" THEN "del"
  ELSE IF CharAt(arg, 1) = "^" THEN "ctrl"
  ELSE "number"

\* which branch of set_control_char an argument takes in stty-gpt-4o.c
gpt4o_cc_kind(info, arg) ==
  IF info.name = N_min \/ info.name = N_time THEN "number"
  ELSE IF CharAt(arg, 1) # NUL /\ CharAt(arg, 2) = NUL THEN "char"
  ELSE IF arg # N_undef_caret /\ arg # N_undef
    THEN IF CharAt(arg, 1) = "^" /\ CharAt(arg, 2) # NUL
           THEN (IF CharAt(arg, 2) = "?" THEN "del" ELSE "ctrl")
           ELSE "number"
  ELSE "undef"

\* set_control_char.  ok = FALSE is integer_arg's fatal exit.
set_control_char(impl, info, arg, mode) ==
  LET Put(v) == [ok |-> TRUE, mode |-> [mode EXCEPT !.c_cc[info.offset] = v]]
      Number(num) == IF num.ok THEN Put(num.value) ELSE [ok |-> FALSE, mode |-> mode]
      Branch(kind) ==
        IF kind = "number" THEN Number(integer_arg(arg, CC_MAX))
        ELSE IF kind = "char" THEN Put(to_uchar(CharAt(arg, 1)))
        ELSE IF kind = "undef" THEN Put(POSIX_VDISABLE)
        ELSE IF kind = "del" THEN Put(127)
        \* to_uchar (arg[1]) & 0x1F and to_uchar (arg[1]) & ~0140 both keep
        \* bits 0..4 of a 7-bit character
        ELSE Put(to_uchar(CharAt(arg, 2)) % 32)
  IN Branch(IF impl = "gemini" THEN gemini_cc_kind(info, arg)
                               ELSE gpt4o_cc_kind(info, arg))

\* cfsetispeed, cfsetospeed: with split = FALSE the C library keeps one
\* speed for both directions
cfsetispeed(mode, baud, split) ==
  IF split THEN [mode EXCEPT !.c_ispeed = baud]
  ELSE [mode EXCEPT !.c_ispeed = baud, !.c_ospeed = baud]

\* a faulty cfsetospeed: the output speed is not stored
cfsetospeed_dropped(mode, baud, split) == mode

cfsetospeed(mode, baud, split) ==
  IF split THEN [mode EXCEPT !.c_ospeed = baud]
  ELSE [mode EXCEPT !.c_ispeed = baud, !.c_ospeed = baud]

cfgetispeed(mode) == mode.c_ispeed
cfgetospeed(mode) == mode.c_ospeed

\* eq_mode
eq_mode(mode1, mode2) ==
  /\ mode1.c_iflag = mode2.c_iflag
  /\ mode1.c_oflag = mode2.c_oflag
  /\ mode1.c_cflag = mode2.c_cflag
  /\ mode1.c_lflag = mode2.c_lflag
  /\ mode1.c_line = mode2.c_line
  /\ cfgetispeed(mode1) = cfgetispeed(mode2)
  /\ cfgetospeed(mode1) = cfgetospeed(mode2)
  /\ mode1.c_cc = mode2.c_cc

(* ------------------------------------------------------------------ *)
(* apply_settings: one iteration of the loop over the setting tokens   *)
(*                                                                     *)
(* A context c holds what an iteration reads and writes: the snapshot  *)
(* c.mode, the flag c.require_set_attr, the globals tcsetattr_options, *)
(* last_ibaud and last_obaud, the loop index c.k, the window size of   *)
(* the device c.win, the device calls made c.calls, the lines printed  *)
(* c.out, and c.status / c.err for an exit.                            *)
(* ------------------------------------------------------------------ *)
TCSANOW == "TCSANOW"
TCSADRAIN == "TCSADRAIN"
INT_MAX == 2147483647
USHRT_RANGE == 65536

NoErr == [msg |-> "", arg |-> <<>>]

\* error (...) followed by usage (EXIT_FAILURE), or error (EXIT_FAILURE, ...)
Failure(c, msg, what) ==
  [c EXCEPT !.status = "failure", !.err = [msg |-> msg, arg |-> what]]

\* *require_set_attr = true
Require(c) == [c EXCEPT !.require_set_attr = TRUE]

\* if (!checking) *require_set_attr = true
RequireUnlessChecking(checking, c) == IF checking THEN c ELSE Require(c)

\* index of the first entry of mode_info named arg, 0 when there is none
LookupMode(arg) == Min0({i \in 1 .. Len(mode_info) : mode_info[i].name = arg})

\* index of the first entry of control_info named arg, 0 when there is none
LookupControl(arg) == Min0({i \in 1 .. Len(control_info) : control_info[i].name = arg})

\* k == n_settings - 1 || !settings[k + 1]
check_missing_argument(settings, k) == k = Len(settings)

\* set_speed
set_speed(type, arg, c, split) ==
  LET In(c0, baud) ==
        IF type \in {"input_speed", "both_speeds"}
          THEN [c0 EXCEPT !.last_ibaud = baud, !.mode = cfsetispeed(@, baud, split)]
          ELSE c0
      Out(c1, baud) ==
        IF type \in {"output_speed", "both_speeds"}
          THEN [c1 EXCEPT !.last_obaud = baud, !.mode = cfsetospeed(@, baud, split)]
          ELSE c1
      Set(baud) ==
        IF baud = BAUD_INVALID THEN Failure(c, "invalid baud rate", arg)
        ELSE Out(In(c, baud), baud)
  IN Set(string_to_baud(arg))

\* check_speed
check_speed(c) ==
  IF c.last_ibaud = BAUD_INVALID \/ c.last_obaud = BAUD_INVALID THEN c
  ELSE IF cfgetispeed(c.mode) # c.last_ibaud \/ cfgetospeed(c.mode) # c.last_obaud
    THEN Failure(c, "asymmetric speeds not supported", <<>>)
  ELSE c

\* set_window_size: TIOCGWINSZ, then TIOCSWINSZ with the changed field
set_window_size(rows, cols, c) ==
  LET Ioctl(w) == [c EXCEPT !.win = w,
                            !.calls = Append(@, [call |-> "TIOCSWINSZ", arg |-> w])]
  IN Ioctl([ws_row |-> IF rows >= 0 THEN rows % USHRT_RANGE ELSE c.win.ws_row,
            ws_col |-> IF cols >= 0 THEN cols % USHRT_RANGE ELSE c.win.ws_col])

\* display_window_size (false, device_name)
display_window_size(c) ==
  [c EXCEPT !.out = Append(@, <<"size", c.win.ws_row, c.win.ws_col>>)]

\* a faulty display_speed: it asks for the write-back
display_speed_requiring(c) ==
  [c EXCEPT !.require_set_attr = TRUE,
            !.out = Append(@, <<"speed", baud_to_value(cfgetospeed(c.mode))>>)]

\* display_speed (mode, false)
display_speed(c) ==
  LET Line(ispeed, ospeed) ==
        IF ispeed = 0 \/ ispeed = ospeed THEN <<"speed", ospeed>>
        ELSE <<"speed", ispeed, ospeed>>
  IN [c EXCEPT !.out = Append(@, Line(baud_to_value(cfgetispeed(c.mode)),
                                      baud_to_value(cfgetospeed(c.mode))))]

\* the message of an ispeed / ospeed argument that is no speed: "invalid
\* ispeed %s" in stty-gemini-2.5-pro.c, "invalid %sspeed %s" in stty-gpt-4o.c
invalid_speed_msg(impl, arg) ==
  IF impl = "gemini"
    THEN (IF arg = N_ispeed THEN "invalid ispeed" ELSE "invalid ospeed")
    ELSE (IF arg = N_ispeed THEN "invalid ispeedspeed" ELSE "invalid ospeedspeed")

\* handle_speed_arg_setting, for arg "ispeed" or "ospeed"
handle_speed_arg_setting(impl, arg, checking, settings, c, split) ==
  LET Arg(speed_val, c1) ==
        IF string_to_baud(speed_val) = BAUD_INVALID
          THEN Failure(c1, invalid_speed_msg(impl, arg), speed_val)
          ELSE RequireUnlessChecking(checking,
                 set_speed(IF arg = N_ispeed THEN "input_speed" ELSE "output_speed",
                           speed_val, c1, split))
  IN IF check_missing_argument(settings, c.k) THEN Failure(c, "missing argument to", arg)
     ELSE Arg(settings[c.k + 1], [c EXCEPT !.k = @ + 1])

\* handle_window_size_setting, for arg "rows", "cols" or "columns"
handle_window_size_setting(impl, arg, checking, settings, c) ==
  LET Size(text, n, c1) ==
        IF ~n.ok THEN Failure(c1, "invalid integer argument", text)
        ELSE IF arg = N_rows THEN set_window_size(n.value, -1, c1)
        ELSE set_window_size(-1, n.value, c1)
  IN IF check_missing_argument(settings, c.k) THEN Failure(c, "missing argument to", arg)
     ELSE IF checking
       \* the validating pass steps over the argument (gemini) or leaves it
       \* to the next iteration (gpt4o)
       THEN IF impl = "gemini" THEN [c EXCEPT !.k = @ + 1] ELSE c
     ELSE Size(settings[c.k + 1], integer_arg(settings[c.k + 1], INT_MAX),
               [c EXCEPT !.k = @ + 1])

\* the "line" setting.  UINTMAX_MAX is beyond the numbers of the model's
\* tokens, INT_MAX stands for it.  A value c_line cannot hold is reported
\* without an exit.
handle_line_setting(arg, settings, c) ==
  LET Line(text, n, c1) ==
        IF ~n.ok THEN Failure(c1, "invalid integer argument", text)
        ELSE [c1 EXCEPT !.mode.c_line = n.value % (CC_MAX + 1),
                        !.require_set_attr = TRUE,
                        !.out = IF n.value > CC_MAX
                                  THEN Append(@, <<"error", "invalid line discipline">>)
                                  ELSE @]
  IN IF check_missing_argument(settings, c.k) THEN Failure(c, "missing argument to", arg)
     ELSE Line(settings[c.k + 1], integer_arg(settings[c.k + 1], INT_MAX),
               [c EXCEPT !.k = @ + 1])

\* apply_special_setting: handled = FALSE when arg is none of the settings
\* with an argument or an action
apply_special_setting(impl, arg, checking, settings, c, split) ==
  IF arg = N_ispeed \/ arg = N_ospeed
    THEN [handled |-> TRUE, c |-> handle_speed_arg_setting(impl, arg, checking, settings, c, split)]
  ELSE IF arg = N_rows \/ arg = N_cols \/ arg = N_columns
    THEN [handled |-> TRUE, c |-> handle_window_size_setting(impl, arg, checking, settings, c)]
  ELSE IF arg = N_size
    THEN [handled |-> TRUE, c |-> IF checking THEN c ELSE display_window_size(c)]
  ELSE IF arg = N_line
    THEN [handled |-> TRUE, c |-> handle_line_setting(arg, settings, c)]
  ELSE IF arg = N_speed
    THEN [handled |-> TRUE, c |-> IF checking THEN c ELSE display_speed(c)]
  ELSE IF string_to_baud(arg) # BAUD_INVALID
    THEN [handled |-> TRUE,
          c |-> RequireUnlessChecking(checking, set_speed("both_speeds", arg, c, split))]
  ELSE [handled |-> FALSE, c |-> c]

\* the loop's k++ after an iteration that did not exit
NextSetting(c) == IF c.status = "running" THEN [c EXCEPT !.k = @ + 1] ELSE c

\* the control character setting of index j
apply_control_setting(impl, j, arg, settings, c) ==
  LET Char(text, r, c1) ==
        IF ~r.ok THEN Failure(c1, "invalid integer argument", text)
        ELSE [c1 EXCEPT !.mode = r.mode, !.require_set_attr = TRUE]
  IN IF check_missing_argument(settings, c.k) THEN Failure(c, "missing argument to", arg)
     ELSE Char(settings[c.k + 1],
               set_control_char(impl, control_info[j], settings[c.k + 1], c.mode),
               [c EXCEPT !.k = @ + 1])

\* the last resort of an iteration: the token is a saved state or invalid.
\* recover_mode has written into *mode what it parsed before it failed.
apply_recover_mode(impl, arg, beyond, c) ==
  LET Recovered(r) ==
        IF ~r.ok THEN Failure([c EXCEPT !.mode = r.mode], "invalid argument", arg)
        ELSE [c EXCEPT !.mode = r.mode, !.require_set_attr = TRUE]
  IN Recovered(recover_mode(impl, arg, beyond, c.mode))

\* if (!apply_special_setting (...)) { if (!recover_mode (...)) ... }
special_or_recover(impl, arg, checking, settings, c, split, beyond) ==
  LET Special(special) ==
        IF special.handled THEN special.c
        ELSE apply_recover_mode(impl, arg, beyond, c)
  IN Special(apply_special_setting(impl, arg, checking, settings, c, split))

\* one iteration of apply_settings in stty-gemini-2.5-pro.c
gemini_apply_setting(checking, settings, c, split) ==
  LET Named(tok, reversed, arg, i, j) ==
        IF arg = N_drain
          THEN [c EXCEPT !.tcsetattr_options = IF reversed THEN TCSANOW ELSE TCSADRAIN]
        ELSE IF i # 0 /\ ~HasFlag(mode_info[i], NO_SETATTR)
          \* the result of set_mode is not looked at
          THEN [c EXCEPT !.mode = set_mode("gemini", mode_info[i], reversed, c.mode).mode,
                         !.require_set_attr = TRUE]
        ELSE IF i = 0 /\ reversed THEN Failure(c, "invalid argument", tok)
        ELSE IF i = 0 /\ j # 0 THEN apply_control_setting("gemini", j, arg, settings, c)
        ELSE special_or_recover("gemini", arg, checking, settings, c, split, <<>>)
      Token(tok, reversed, arg) ==
        Named(tok, reversed, arg, LookupMode(arg), LookupControl(arg))
      Setting(tok) ==
        Token(tok, CharAt(tok, 1) = "-", IF CharAt(tok, 1) = "-" THEN Tail(tok) ELSE tok)
  IN NextSetting(Setting(settings[c.k]))

\* the loop over mode_info in stty-gpt-4o.c, for the entry of index i (0:
\* no entry is named arg): match_found, not_set_attr and the context after
gpt4o_match_mode(i, reversed, c) ==
  LET Mode(r) == [match_found |-> r.ok, not_set_attr |-> FALSE,
                  c |-> [c EXCEPT !.mode = r.mode, !.require_set_attr = TRUE]]
  IN IF i = 0 THEN [match_found |-> FALSE, not_set_attr |-> FALSE, c |-> c]
     ELSE IF HasFlag(mode_info[i], NO_SETATTR)
       THEN [match_found |-> TRUE, not_set_attr |-> TRUE, c |-> c]
     ELSE Mode(set_mode("gpt4o", mode_info[i], reversed, c.mode))

\* one iteration of apply_settings in stty-gpt-4o.c
gpt4o_apply_setting(checking, settings, c, split, beyond) ==
  LET Matched(tok, reversed, arg, j, m) ==
        IF ~m.match_found /\ reversed THEN Failure(m.c, "invalid argument", tok)
        ELSE IF m.match_found /\ ~m.not_set_attr THEN m.c
        ELSE IF ~m.match_found /\ j # 0
          THEN apply_control_setting("gpt4o", j, arg, settings, m.c)
        ELSE special_or_recover("gpt4o", arg, checking, settings, m.c, split, beyond)
      Token(tok, reversed, arg) ==
        IF arg = N_drain
          THEN [c EXCEPT !.tcsetattr_options = IF reversed THEN TCSANOW ELSE TCSADRAIN]
        ELSE Matched(tok, reversed, arg, LookupControl(arg),
                     gpt4o_match_mode(LookupMode(arg), reversed, c))
      Setting(tok) ==
        Token(tok, CharAt(tok, 1) = "-", IF CharAt(tok, 1) = "-" THEN Tail(tok) ELSE tok)
  IN NextSetting(Setting(settings[c.k]))

apply_setting(impl, checking, settings, c, split, beyond) ==
  IF impl = "gemini" THEN gemini_apply_setting(checking, settings, c, split)
  ELSE gpt4o_apply_setting(checking, settings, c, split, beyond)

(* ------------------------------------------------------------------ *)
(* Display                                                             *)
(* ------------------------------------------------------------------ *)
\* What is printed is modelled as the sequence of the texts handed to wrapf,
\* one item per call; where wrapf breaks the lines is left out.

\* printf ("%lu") and printf ("%d") of a number that is not negative
RECURSIVE FormatDec(_)
FormatDec(n) ==
  IF n < 10 THEN <<HexChars[n + 1]>>
  ELSE FormatDec(n \div 10) \o <<HexChars[(n % 10) + 1]>>

N_flush == <<"f","l","u","s","h">>
T_undef == <<"<","u","n","d","e","f",">">>

\* visible in stty-gemini-2.5-pro.c
gemini_visible(ch) ==
  LET Low(c) ==
        IF c < 32 THEN <<"^", CharOf(c + 64)>>
        ELSE IF c < 127 THEN <<CharOf(c)>>
        ELSE <<"^", "?">>
  IN IF ch = POSIX_VDISABLE THEN T_undef
     ELSE IF ch >= 128 THEN <<"M", "-">> \o Low(ch - 128)
     ELSE Low(ch)

\* visible in stty-gpt-4o.c: bpout is advanced only past a printable
\* character and past "M-", so the terminator written through it at the end
\* cuts off what strcpy and buf[1] have stored
gpt4o_visible(ch) ==
  IF ch = POSIX_VDISABLE THEN T_undef
  ELSE IF ch >= 32 /\ ch < 127 THEN <<CharOf(ch)>>
  ELSE IF ch = 127 THEN <<>>
  ELSE IF ch >= 128
    THEN (IF ch - 128 >= 32 /\ ch - 128 < 127
            THEN <<"M", "-", CharOf(ch - 128)>>
            ELSE <<"M", "-">>)
  ELSE <<>>

\* a faulty visible: the control codes are shown without their caret
visible_without_caret(impl, ch) ==
  IF ch = POSIX_VDISABLE THEN T_undef
  ELSE IF ch >= 128 THEN <<"M", "-", CharOf(((ch - 128) % 64) + 32)>>
  ELSE <<CharOf((ch % 64) + 32)>>

visible(impl, ch) ==
  IF impl = "gemini" THEN gemini_visible(ch) ELSE gpt4o_visible(ch)

\* wrapf ("%s = %s;", name, visible (c_cc[offset]))
control_char_item(impl, info, mode) ==
  info.name \o <<" ","="," ">> \o visible(impl, mode.c_cc[info.offset]) \o <<";">>

\* wrapf ("min = %lu; time = %lu;", c_cc[VMIN], c_cc[VTIME]); ending is "\n"
\* in display_changed of stty-gpt-4o.c and nothing elsewhere
min_time_item(mode, ending) ==
  <<"m","i","n"," ","="," ">> \o FormatDec(mode.c_cc[VMIN]) \o <<";"," ","t","i","m","e"," ","="," ">>
    \o FormatDec(mode.c_cc[VTIME]) \o <<";">> \o ending

\* wrapf ("line = %d;", mode->c_line)
line_item(mode) == <<"l","i","n","e"," ","="," ">> \o FormatDec(mode.c_line) \o <<";">>

\* display_speed (mode, true)
display_speed_fancy(mode) ==
  LET Line(ispeed, ospeed) ==
        IF ispeed = 0 \/ ispeed = ospeed
          THEN <<"s","p","e","e","d"," ">> \o FormatDec(ospeed) \o <<" ","b","a","u","d",";">>
          ELSE <<"i","s","p","e","e","d"," ">> \o FormatDec(ispeed) \o <<" ","b","a","u","d",";"," ","o","s","p","e","e","d"," ">>
                 \o FormatDec(ospeed) \o <<" ","b","a","u","d",";">>
  IN Line(baud_to_value(cfgetispeed(mode)), baud_to_value(cfgetospeed(mode)))

\* display_window_size (true, device_name)
window_size_item(win) ==
  <<"r","o","w","s"," ">> \o FormatDec(win.ws_row) \o <<";"," ","c","o","l","u","m","n","s"," ">> \o FormatDec(win.ws_col) \o <<";">>

\* a faulty should_skip_control_char: discard is left out as flush is
changed_skips_discard_too(info, mode) ==
  \/ mode.c_cc[info.offset] = info.saneval
  \/ info.offset = VFLUSHO

\* should_skip_control_char of display_changed (VSWTCH /= VSUSP and
\* VEOF /= VMIN on the target)
changed_skips_control_char(info, mode) ==
  \/ mode.c_cc[info.offset] = info.saneval
  \/ info.name = N_flush

\* the control-character loop of display_changed, from entry i to "min"
RECURSIVE changed_control_chars(_, _, _)
changed_control_chars(impl, mode, i) ==
  IF control_info[i].name = N_min THEN <<>>
  ELSE (IF changed_skips_control_char(control_info[i], mode) THEN <<>>
        ELSE <<control_char_item(impl, control_info[i], mode)>>)
       \o changed_control_chars(impl, mode, i + 1)

\* the control-character loop of display_all, from entry i to "min"
RECURSIVE all_control_chars(_, _, _)
all_control_chars(impl, mode, i) ==
  IF control_info[i].name = N_min THEN <<>>
  ELSE (IF control_info[i].name = N_flush THEN <<>>
        ELSE <<control_char_item(impl, control_info[i], mode)>>)
       \o all_control_chars(impl, mode, i + 1)

\* (*bitsp & mask) == info->bits, with mask = info->mask ? info->mask : info->bits
bits_match(info, mode) ==
  FlagWord(info.type, mode) \cap (IF info.mask # {} THEN info.mask ELSE info.bits)
    = info.bits

\* a faulty changed-only rule: the default-set entries are never shown
changed_mode_flag_plain_only(info, mode) ==
  IF HasFlag(info, OMIT) THEN <<>>
  ELSE IF bits_match(info, mode) /\ HasFlag(info, SANE_UNSET) THEN <<info.name>>
  ELSE <<>>

\* a faulty changed-only rule: an entry whose bits are set is shown whatever
\* its default
changed_mode_flag_any_default(info, mode) ==
  IF HasFlag(info, OMIT) THEN <<>>
  ELSE IF bits_match(info, mode) THEN <<info.name>>
  ELSE IF HasFlag(info, SANE_SET) /\ HasFlag(info, REV)
    THEN << <<"-">> \o info.name >>
  ELSE <<>>

\* display_one_mode_flag: what display_changed prints for one registry entry
changed_mode_flag(info, mode) ==
  IF HasFlag(info, OMIT) THEN <<>>
  ELSE IF bits_match(info, mode)
    THEN (IF HasFlag(info, SANE_UNSET) THEN <<info.name>> ELSE <<>>)
  ELSE IF HasFlag(info, SANE_SET) /\ HasFlag(info, REV)
    THEN << <<"-">> \o info.name >>
  ELSE <<>>

\* a faulty all-settings rule: an entry that does not match is left out
all_mode_flag_plain_only(info, mode) ==
  IF HasFlag(info, OMIT) THEN <<>>
  ELSE IF bits_match(info, mode) THEN <<info.name>>
  ELSE <<>>

\* what display_all prints for one registry entry
all_mode_flag(info, mode) ==
  IF HasFlag(info, OMIT) THEN <<>>
  ELSE IF bits_match(info, mode) THEN <<info.name>>
  ELSE IF HasFlag(info, REV) THEN << <<"-">> \o info.name >>
  ELSE <<>>

RECURSIVE changed_mode_flags(_, _)
changed_mode_flags(mode, i) ==
  IF i > Len(mode_info) THEN <<>>
  ELSE changed_mode_flag(mode_info[i], mode) \o changed_mode_flags(mode, i + 1)

RECURSIVE all_mode_flags(_, _)
all_mode_flags(mode, i) ==
  IF i > Len(mode_info) THEN <<>>
  ELSE all_mode_flag(mode_info[i], mode) \o all_mode_flags(mode, i + 1)

\* display_changed
display_changed(impl, mode) ==
  <<display_speed_fancy(mode), line_item(mode)>>
    \o changed_control_chars(impl, mode, 1)
    \o (IF mode.c_lflag \cap ICANON = {}
          THEN <<min_time_item(mode, IF impl = "gemini" THEN <<>> ELSE <<"\n">>)>>
          ELSE <<>>)
    \o changed_mode_flags(mode, 1)

\* display_all
display_all(impl, mode, win) ==
  <<display_speed_fancy(mode), window_size_item(win), line_item(mode)>>
    \o all_control_chars(impl, mode, 1)
    \o <<min_time_item(mode, <<>>)>>
    \o all_mode_flags(mode, 1)

OutputTypes == {"changed", "all", "recoverable"}

\* display_settings
display_settings(impl, output_type, mode, win) ==
  CASE output_type = "changed" -> display_changed(impl, mode)
    [] output_type = "all" -> display_all(impl, mode, win)
    [] output_type = "recoverable" -> <<display_recoverable(mode)>>

(* ------------------------------------------------------------------ *)
(* The program: main ()                                                *)
(* ------------------------------------------------------------------ *)
VARIABLES
  impl,               \* which of the two source files runs
  split,              \* whether the C library keeps input and output speed apart
  settings,           \* argv[1 ..]: the setting tokens
  tty,                \* the attributes the device holds
  win,                \* the window size the device holds
  pc,                 \* where main () is
  k,                  \* apply_settings: index of the next token
  mode,               \* the snapshot apply_settings works on
  require_set_attr,
  tcsetattr_options,
  last_ibaud,
  last_obaud,
  calls,              \* the calls made on the device so far
  out,                \* what has been printed
  status,             \* "running", then "success" or "failure"
  err,                \* the diagnostic of a failure
  output_type,        \* parse_options: the output style the options ask for
  before,             \* history: mode and require_set_attr as the iteration
                      \* that led to this state found them
  last                \* history: the pass and the token index of the iteration
                      \* that led to this state, NoIteration after another step

vars == <<impl, split, settings, tty, win, pc, k, mode, require_set_attr,
          tcsetattr_options, last_ibaud, last_obaud, calls, out, status, err,
          output_type, before, last>>

\* a terminal in its usual state
SaneTty ==
  [sane_mode(ZeroMode) EXCEPT !.c_cflag = @ \cup CS8 \cup HUPCL,
                              !.c_ispeed = B38400, !.c_ospeed = B38400]

\* a serial line left in an unusual state
OddTty ==
  [c_iflag |-> IGNBRK \cup INPCK \cup ISTRIP \cup IXANY \cup IUTF8,
   c_oflag |-> OLCUC \cup CR2 \cup TAB3 \cup FFDLY,
   c_cflag |-> CS7 \cup PARENB \cup PARODD \cup CLOCAL \cup CRTSCTS,
   c_lflag |-> ISIG \cup XCASE \cup ECHONL \cup TOSTOP \cup IEXTEN,
   c_line |-> 0,
   c_cc |-> [i \in Slots |-> IF i = VINTR THEN 127 ELSE IF i = VERASE THEN 8
                             ELSE IF i = VMIN THEN 1 ELSE IF i = VEOL2 THEN CC_MAX
                             ELSE IF i = VSWTCH THEN 200 ELSE 0],
   c_ispeed |-> value_to_baud(9600), c_ospeed |-> value_to_baud(9600)]

TtyModes == {SaneTty, OddTty}

\* saved-state tokens that are not what display_recoverable prints
ReplaceFirst(s, w) == w \o SubSeq(s, 2, Len(s))
EmptyFieldToken == ReplaceFirst(SavedToken(ZeroMode), <<>>)
LongFieldToken == ReplaceFirst(SavedToken(ZeroMode), <<"1","0","0","0","0","0","0","0","5">>)
SignedFieldToken == ReplaceFirst(SavedToken(ZeroMode), <<"+","7">>)
ShortToken == <<"1",":","2",":","3",":","4",":","5">>

\* the words the token lists are made of
Vocabulary ==
  {<<"s","a","n","e">>,
   <<"r","a","w">>,
   <<"c","o","o","k","e","d">>,
   <<"p","a","r","e","n","b">>,
   <<"-","p","a","r","e","n","b">>,
   <<"-","c","s","8">>,
   <<"d","r","a","i","n">>,
   <<"-","d","r","a","i","n">>,
   <<"r","o","w","s">>,
   <<"9","6","0","0">>,
   <<"i","n","t","r">>,
   <<"x">>}

RECURSIVE ListsUpTo(_, _)
ListsUpTo(S, n) ==
  IF n = 0 THEN {<<>>}
  ELSE LET shorter == ListsUpTo(S, n - 1)
       IN shorter \cup {Append(l, t) : l \in shorter, t \in S}

\* decimal speeds with a fraction, with garbage behind it and with a sign
RoundingWholes == {<<"4","9">>, <<"5","0">>, <<"1","3","3">>, <<"1","3","4">>}
RoundingFractions ==
  {<<>>,
   <<".">>,
   <<".","5">>,
   <<".","5","0">>,
   <<".","5","0","0">>,
   <<".","5","1">>,
   <<".","5","0","1">>,
   <<".","0","5">>,
   <<".","4">>,
   <<".","4","9">>,
   <<".","6">>,
   <<".","9","5">>,
   <<".","5","x">>,
   <<".","x">>,
   <<".","4","x">>,
   <<".","5","0","x">>,
   <<".","6","x">>}
RoundingTokens ==
  {n \o f : n \in RoundingWholes, f \in RoundingFractions}
    \cup {<<"-","1","3","4">>, <<"-","1","3","4",".","5">>, <<"-","5","0">>}
RoundingLists == {<<N_ospeed, t>> : t \in RoundingTokens}

\* token lists of particular interest
ScenarioLists ==
  {<<<<"r","o","w","s">>, <<"1","0">>, <<"c","o","l","s">>, <<"x">>>>,
   <<<<"r","o","w","s">>, <<"9","6","0","0">>, <<"c","o","l","s">>, <<"s","a","n","e">>>>,
   <<<<"r","o","w","s">>, <<"1","0">>>>,
   <<<<"c","o","l","s">>, <<"8","0">>>>,
   <<<<"c","o","l","u","m","n","s">>, <<"8","0">>>>,
   <<<<"s","i","z","e">>>>,
   <<<<"s","p","e","e","d">>>>,
   <<<<"s","i","z","e">>, <<"s","p","e","e","d">>, <<"-","d","r","a","i","n">>>>,
   <<<<"d","r","a","i","n">>, <<"r","o","w","s">>, <<"9","6","0","0">>, <<"s","i","z","e">>>>,
   <<<<"c","s","8">>>>,
   <<<<"-","d","r","a","i","n">>, <<"c","s","8">>>>,
   <<<<"-","d","r","a","i","n">>, <<"d","r","a","i","n">>, <<"c","s","8">>>>,
   <<<<"c","s","8">>, <<"-","d","r","a","i","n">>>>,
   <<<<"i","s","p","e","e","d">>, <<"9","6","0","0">>>>,
   <<<<"o","s","p","e","e","d">>, <<"1","9","2","0","0">>>>,
   <<<<"i","s","p","e","e","d">>, <<"9","6","0","0">>, <<"o","s","p","e","e","d">>, <<"1","9","2","0","0">>>>,
   <<<<"i","s","p","e","e","d">>, <<"x">>>>,
   <<<<"i","s","p","e","e","d">>>>,
   <<<<"1","9","2","0","0">>>>,
   <<<<"1","3","4",".","5">>>>,
   <<<<"e","x","t","a">>>>,
   <<<<"l","i","n","e">>, <<"1">>>>,
   <<<<"l","i","n","e">>, <<"3","0","0">>>>,
   <<<<"l","i","n","e">>>>,
   <<SavedToken(SaneTty)>>,
   <<SavedToken(OddTty)>>,
   <<<<"l","i","n","e">>, <<"1">>, SavedToken(OddTty)>>,
   <<<<"1","9","2","0","0">>, SavedToken(SaneTty)>>,
   <<<<"7",":","7",":","7">>>>,
   <<EmptyFieldToken>>,
   <<LongFieldToken>>,
   <<ShortToken>>,
   <<SignedFieldToken>>,
   <<<<"-","f","o","o">>>>,
   <<<<"f","o","o">>>>,
   <<<<"-","s","a","n","e">>>>,
   <<<<"-","e","k">>>>,
   <<<<"-","c","r","t">>>>,
   <<<<"-","d","e","c">>>>,
   <<<<"c","s","8">>, <<"-","c","s","8">>>>,
   <<<<"e","v","e","n","p">>>>,
   <<<<"-","e","v","e","n","p">>>>,
   <<<<"n","l">>>>,
   <<<<"-","n","l">>>>,
   <<<<"r","a","w">>, <<"-","r","a","w">>>>,
   <<<<"-","c","o","o","k","e","d">>>>,
   <<<<"c","o","o","k","e","d">>, <<"r","a","w">>, <<"c","o","o","k","e","d">>>>,
   <<<<"i","n","t","r">>, <<"^","c">>>>,
   <<<<"i","n","t","r">>, <<"^","-">>>>,
   <<<<"i","n","t","r">>, <<>>>>,
   <<<<"m","i","n">>, <<"1">>>>,
   <<<<"t","i","m","e">>, <<"0","x","1","f">>>>,
   <<<<"i","n","t","r">>, <<"3","0","0">>>>,
   <<<<"i","n","t","r">>, <<"^","?">>>>,
   <<<<"i","n","t","r">>, <<"u","n","d","e","f">>>>,
   <<<<"i","n","t","r">>, <<"5">>>>,
   <<<<"m","i","n">>, <<"5">>>>,
   <<<<"i","n","t","r">>, <<"1","7">>>>,
   <<<<"i","n","t","r">>, <<"^">>>>,
   <<<<"i","n","t","r">>, <<"^","c","x">>>>,
   <<<<"q","u","i","t">>, <<"^","?","x">>>>,
   <<<<"t","i","m","e">>, <<"^","c">>>>,
   <<<<"m","i","n">>, <<"u","n","d","e","f">>>>,
   <<<<"e","r","a","s","e">>, <<"0","1","7","7">>>>,
   <<<<"k","i","l","l">>, <<"-","1">>>>,
   <<<<"o","s","p","e","e","d">>>>,
   <<<<"c","o","l","s">>>>,
   <<<<"c","o","l","u","m","n","s">>>>,
   <<<<"e","r","a","s","e">>>>,
   <<<<"s","a","n","e">>, <<"i","s","p","e","e","d">>>>,
   <<<<"s","a","n","e">>, <<"l","i","n","e">>>>,
   <<<<"c","s","8">>, <<"m","i","n">>>>,
   <<<<"s","a","n","e">>, <<"c","o","l","s">>>>,
   <<<<"c","o","l","s">>, <<"3","0","0">>>>,
   <<<<"c","o","l","u","m","n","s">>, <<"r","a","w">>>>,
   <<<<"c","s","7">>, <<"c","s","8">>>>,
   <<<<"c","s","8">>, <<"c","s","7">>>>,
   <<<<"i","n","t","r">>, <<"^","c">>, <<"i","n","t","r">>, <<"^","?">>>>,
   <<<<"p","a","r","e","n","b">>, <<"i","n","t","r">>, <<"^","c">>, <<"-","p","a","r","e","n","b">>>>,
   <<<<"r","o","w","s">>, <<"9","6","0","0">>, <<"i","s","p","e","e","d">>, <<"3","0","0">>>>,
   <<<<"i","s","p","e","e","d">>, <<"3","0","0">>, <<"i","s","p","e","e","d">>, <<"9","6","0","0">>, <<"o","s","p","e","e","d">>, <<"9","6","0","0">>>>,
   <<<<"i","s","p","e","e","d">>, <<"9","6","0","0">>, <<"o","s","p","e","e","d">>, <<"3","0","0">>, <<"o","s","p","e","e","d">>, <<"9","6","0","0">>>>,
   <<<<"o","s","p","e","e","d">>, <<"3","0","0">>, <<"s","a","n","e">>>>,
   <<<<"9","6","0","0">>, <<"i","s","p","e","e","d">>, <<"3","0","0">>>>,
   <<<<"e","c","h","o">>, <<"-","e","c","h","o">>>>,
   <<<<"t","a","b","s">>, <<"-","t","a","b","s">>>>,
   <<<<"i","x","o","n">>, <<"-","i","x","o","n">>, <<"i","x","o","n">>>>}

SettingLists == ListsUpTo(Vocabulary, MaxTokens) \cup ScenarioLists \cup RoundingLists

\* what may lie in memory behind a token's terminator
Beyonds == {<<>>, <<"z">>}

N_minus_drain == <<"-">> \o N_drain

\* parse_options: noargs stays true while every token is "drain" or "-drain"
noargs == \A i \in 1 .. Len(settings) : settings[i] \in {N_drain, N_minus_drain}

Ctx ==
  [mode |-> mode, require_set_attr |-> require_set_attr,
   tcsetattr_options |-> tcsetattr_options,
   last_ibaud |-> last_ibaud, last_obaud |-> last_obaud,
   k |-> k, win |-> win, calls |-> calls, out |-> out,
   status |-> "running", err |-> NoErr]

\* the variables an iteration of apply_settings may write
Store(c, pass) ==
  /\ mode' = c.mode
  /\ require_set_attr' = c.require_set_attr
  /\ tcsetattr_options' = c.tcsetattr_options
  /\ last_ibaud' = c.last_ibaud
  /\ last_obaud' = c.last_obaud
  /\ k' = c.k
  /\ win' = c.win
  /\ calls' = c.calls
  /\ out' = c.out
  /\ status' = c.status
  /\ err' = c.err
  /\ pc' = IF c.status = "failure" THEN "done" ELSE pass

\* no iteration of apply_settings led to the state
NoIteration == [pass |-> "none", k |-> 0]

Init ==
  /\ settings \in SettingLists
  /\ tty \in TtyModes
  /\ impl \in Impls
  /\ split \in BOOLEAN
  /\ win = [ws_row |-> 24, ws_col |-> 80]
  /\ pc = "start"
  /\ k = 1
  /\ mode = ZeroMode
  /\ require_set_attr = FALSE
  /\ tcsetattr_options = TCSADRAIN
  /\ last_ibaud = BAUD_INVALID
  /\ last_obaud = BAUD_INVALID
  /\ calls = <<>>
  /\ out = <<>>
  /\ status = "running"
  /\ err = NoErr
  /\ output_type = "changed"
  /\ before = [mode |-> ZeroMode, require_set_attr |-> FALSE]
  /\ last = NoIteration

\* the diagnostic of parse_options for -a or -g together with settings
StyleWithModes == "when specifying an output style, modes may not be set"

\* main up to the validating pass: parse_options (the options ask for one
\* output style) and the scratch snapshot
Start ==
  /\ pc = "start"
  /\ \E style \in OutputTypes :
       /\ output_type' = style
       /\ IF ~noargs /\ style # "changed"
            THEN /\ pc' = "done"
                 /\ status' = "failure"
                 /\ err' = [msg |-> StyleWithModes, arg |-> <<>>]
            ELSE /\ pc' = IF noargs THEN "get" ELSE "check"
                 /\ UNCHANGED <<status, err>>
  /\ k' = 1
  /\ mode' = ZeroMode
  /\ UNCHANGED <<impl, split, settings, tty, win, require_set_attr,
                 tcsetattr_options, last_ibaud, last_obaud, calls, out, before>>
  /\ last' = NoIteration

\* apply_settings (true, ...): one token
CheckStep ==
  /\ pc = "check"
  /\ k <= Len(settings)
  /\ \E beyond \in Beyonds :
       Store(apply_setting(impl, TRUE, settings, Ctx, split, beyond), "check")
  /\ before' = [mode |-> mode, require_set_attr |-> require_set_attr]
  /\ last' = [pass |-> "check", k |-> k]
  /\ UNCHANGED <<impl, split, settings, tty, output_type>>

\* apply_settings (true, ...): the end of the loop and check_speed
CheckEnd ==
  /\ pc = "check"
  /\ k > Len(settings)
  /\ Store(check_speed(Ctx), "get")
  /\ last' = NoIteration
  /\ UNCHANGED <<impl, split, settings, tty, output_type, before>>

\* tcgetattr on the device, then the choice between display and the real pass
GetAttr ==
  /\ pc = "get"
  /\ \E ok \in BOOLEAN :
       IF ok
         THEN /\ mode' = tty
              /\ pc' = IF noargs THEN "display" ELSE "apply"
              /\ UNCHANGED <<status, err>>
         ELSE /\ pc' = "done"
              /\ status' = "failure"
              /\ err' = [msg |-> "tcgetattr", arg |-> <<>>]
              /\ UNCHANGED mode
  /\ k' = 1
  /\ require_set_attr' = FALSE
  /\ UNCHANGED <<impl, split, settings, tty, win, tcsetattr_options,
                 last_ibaud, last_obaud, calls, out, output_type, before>>
  /\ last' = NoIteration

\* apply_settings (false, ...): one token
ApplyStep ==
  /\ pc = "apply"
  /\ k <= Len(settings)
  /\ \E beyond \in Beyonds :
       Store(apply_setting(impl, FALSE, settings, Ctx, split, beyond), "apply")
  /\ before' = [mode |-> mode, require_set_attr |-> require_set_attr]
  /\ last' = [pass |-> "apply", k |-> k]
  /\ UNCHANGED <<impl, split, settings, tty, output_type>>

\* the timing main hands to tcsetattr
write_back_timing(i, options) == IF i = "gemini" THEN options ELSE TCSANOW

\* the write-back: tcsetattr, tcgetattr and eq_mode.  The driver takes the
\* whole snapshot, or keeps its c_cflag, or refuses.
SetAttr ==
  /\ pc = "apply"
  /\ k > Len(settings)
  /\ require_set_attr
  /\ \E outcome \in {"applied", "partial", "error"} :
       LET new_mode == IF outcome = "applied" THEN mode
                       ELSE [mode EXCEPT !.c_cflag = tty.c_cflag]
       IN /\ calls' = Append(calls, [call |-> "tcsetattr",
                                     arg |-> write_back_timing(impl, tcsetattr_options)])
          /\ tty' = IF outcome = "error" THEN tty ELSE new_mode
          /\ IF outcome = "error"
               THEN status' = "failure" /\ err' = [msg |-> "tcsetattr", arg |-> <<>>]
             ELSE IF ~eq_mode(mode, new_mode)
               THEN status' = "failure"
                    /\ err' = [msg |-> "unable to perform all requested operations",
                               arg |-> <<>>]
             ELSE status' = "success" /\ UNCHANGED err
  /\ pc' = "done"
  /\ UNCHANGED <<impl, split, settings, win, k, mode, require_set_attr,
                 tcsetattr_options, last_ibaud, last_obaud, out, output_type,
                 before>>
  /\ last' = NoIteration

\* main returns without a write-back
Exit ==
  /\ pc = "apply"
  /\ k > Len(settings)
  /\ ~require_set_attr
  /\ pc' = "done"
  /\ status' = "success"
  /\ UNCHANGED <<impl, split, settings, tty, win, k, mode, require_set_attr,
                 tcsetattr_options, last_ibaud, last_obaud, calls, out, err,
                 output_type, before>>
  /\ last' = NoIteration

\* display_settings, when no setting was given
Display ==
  /\ pc = "display"
  /\ out' = out \o display_settings(impl, output_type, mode, win)
  /\ pc' = "done"
  /\ status' = "success"
  /\ UNCHANGED <<impl, split, settings, tty, win, k, mode, require_set_attr,
                 tcsetattr_options, last_ibaud, last_obaud, calls, err,
                 output_type, before>>
  /\ last' = NoIteration

Next ==
  \/ Start
  \/ CheckStep
  \/ CheckEnd
  \/ GetAttr
  \/ ApplyStep
  \/ SetAttr
  \/ Exit
  \/ Display

Spec == Init /\ [][Next]_vars

(* ------------------------------------------------------------------ *)
(* Display runs: stty, stty -a and stty -g on a device in any of a     *)
(* family of states                                                    *)
(* ------------------------------------------------------------------ *)
\* a device with every flag bit set
AllSetTty ==
  [SaneTty EXCEPT !.c_iflag = 0 .. (TCFLAG_BITS - 1), !.c_oflag = 0 .. (TCFLAG_BITS - 1),
                  !.c_cflag = 0 .. (TCFLAG_BITS - 1), !.c_lflag = 0 .. (TCFLAG_BITS - 1)]

BaseTtys == {SaneTty, OddTty, ZeroMode, AllSetTty}

\* devices with one byte value in every control-character slot
ByteTtys == {[OddTty EXCEPT !.c_cc = [i \in Slots |-> v]] : v \in 0 .. CC_MAX}

\* the devices an earlier run of stty with one registry entry, plain or
\* negated, has left
EntryTtys ==
  {set_mode(i, mode_info[j], r, B).mode :
     i \in Impls, j \in 1 .. Len(mode_info), r \in BOOLEAN, B \in BaseTtys}

DisplayTtys == BaseTtys \cup ByteTtys \cup EntryTtys

\* token lists that leave noargs true
DisplayLists == {<<>>, <<N_minus_drain>>}

DisplayInit ==
  /\ settings \in DisplayLists
  /\ tty \in DisplayTtys
  /\ impl \in Impls
  /\ split \in BOOLEAN
  /\ win = [ws_row |-> 24, ws_col |-> 80]
  /\ pc = "start"
  /\ k = 1
  /\ mode = ZeroMode
  /\ require_set_attr = FALSE
  /\ tcsetattr_options = TCSADRAIN
  /\ last_ibaud = BAUD_INVALID
  /\ last_obaud = BAUD_INVALID
  /\ calls = <<>>
  /\ out = <<>>
  /\ status = "running"
  /\ err = NoErr
  /\ output_type = "changed"
  /\ before = [mode |-> ZeroMode, require_set_attr |-> FALSE]
  /\ last = NoIteration

DisplayNext ==
  \/ Start
  \/ GetAttr
  \/ Display

DisplaySpec == DisplayInit /\ [][DisplayNext]_vars


(* ------------------------------------------------------------------ *)
(* Combination runs: stty with one combination setting, or one of the  *)
(* plain settings of its documented expansion, on a device in any of a *)
(* family of states                                                    *)
(* ------------------------------------------------------------------ *)
\* the devices stty runs on: the base states and what one registry entry
\* has made of the odd one
ComboTtys ==
  BaseTtys \cup {set_mode(i, mode_info[j], r, OddTty).mode :
                   i \in Impls, j \in 1 .. Len(mode_info), r \in BOOLEAN}

\* the combination settings, plain and negated, and the settings decctlq is
\* documented by
ComboTokens ==
  {<<"r","a","w">>, <<"-","r","a","w">>, <<"c","o","o","k","e","d">>, <<"-","c","o","o","k","e","d">>, <<"d","e","c","c","t","l","q">>, <<"-","d","e","c","c","t","l","q">>, <<"i","x","a","n","y">>, <<"-","i","x","a","n","y">>,
   <<"c","b","r","e","a","k">>, <<"-","c","b","r","e","a","k">>, <<"e","v","e","n","p">>, <<"-","e","v","e","n","p">>, <<"p","a","r","i","t","y">>, <<"-","p","a","r","i","t","y">>, <<"o","d","d","p">>, <<"-","o","d","d","p">>,
   <<"p","a","s","s","8">>, <<"-","p","a","s","s","8">>, <<"l","i","t","o","u","t">>, <<"-","l","i","t","o","u","t">>, <<"n","l">>, <<"-","n","l">>, <<"t","a","b","s">>, <<"-","t","a","b","s">>,
   <<"c","r","t">>, <<"d","e","c">>, <<"l","c","a","s","e">>, <<"-","l","c","a","s","e">>, <<"L","C","A","S","E">>, <<"-","L","C","A","S","E">>, <<"e","k">>, <<"s","a","n","e">>}

\* one combination token, or no token, or size alone (no write-back)
ComboLists == {<<t>> : t \in ComboTokens} \cup {<<>>, <<N_size>>}

ComboInit ==
  /\ settings \in ComboLists
  /\ tty \in ComboTtys
  /\ impl \in Impls
  /\ split \in BOOLEAN
  /\ win = [ws_row |-> 24, ws_col |-> 80]
  /\ pc = "start"
  /\ k = 1
  /\ mode = ZeroMode
  /\ require_set_attr = FALSE
  /\ tcsetattr_options = TCSADRAIN
  /\ last_ibaud = BAUD_INVALID
  /\ last_obaud = BAUD_INVALID
  /\ calls = <<>>
  /\ out = <<>>
  /\ status = "running"
  /\ err = NoErr
  /\ output_type = "changed"
  /\ before = [mode |-> ZeroMode, require_set_attr |-> FALSE]
  /\ last = NoIteration

ComboSpec == ComboInit /\ [][Next]_vars

(* ------------------------------------------------------------------ *)
(* Properties                                                          *)
(* ------------------------------------------------------------------ *)
\* an iteration of apply_settings led to the state
JustStepped == last.pass # "none"

\* the token that iteration started with
LastToken == settings[last.k]

\* the snapshot the pass of that iteration started from
StartMode == IF last.pass = "check" THEN ZeroMode ELSE tty

\* the run has ended well: mode is a snapshot the program leaves behind
Settled == pc = "done" /\ status = "success"

\* the diagnostics of a usage error
UsageMessages ==
  {"invalid argument", "missing argument to", "invalid integer argument",
   "invalid ispeed", "invalid ospeed", "invalid ispeedspeed",
   "invalid ospeedspeed", "invalid baud rate"}

\* the calls that change the device (the extproc ioctl is not compiled in)
DeviceMutatingCalls == {"tcsetattr", "TIOCSWINSZ"}

\* where in calls the write-back is
SetAttrCalls == {i \in DOMAIN calls : calls[i].call = "tcsetattr"}

\* C1: when the run has ended in a usage error (unrecognized token, missing
\* argument, malformed saved state, invalid speed or number), no call that
\* changes the device has been made: neither the write-back nor the
\* window-size ioctl.
C1_NoDeviceCallBeforeUsageError ==
  (status = "failure" /\ err.msg \in UsageMessages)
    => \A i \in DOMAIN calls : calls[i].call \notin DeviceMutatingCalls

\* a token with a leading '-' whose rest names no entry of mode_info, or one
\* without REV ("-drain" is the timing switch, no registry lookup)
NotNegatable(tok) ==
  /\ CharAt(tok, 1) = "-"
  /\ Tail(tok) # N_drain
  /\ \/ LookupMode(Tail(tok)) = 0
     \/ ~HasFlag(mode_info[LookupMode(Tail(tok))], REV)

\* C2: an iteration on a token with a leading '-' whose rest matches no
\* registry entry, or a non-reversible one, ends in the fatal "invalid
\* argument" naming the token with its '-', and leaves the snapshot and the
\* write-back flag as it found them.
C2_NegatedUnknownIsFatal ==
  (JustStepped /\ NotNegatable(LastToken))
    => /\ status = "failure"
       /\ err = [msg |-> "invalid argument", arg |-> LastToken]
       /\ mode = before.mode
       /\ require_set_attr = before.require_set_attr

\* a token list made only of drain / -drain, size, speed, rows N, cols N and
\* columns N, from index i on
RECURSIVE OnlyQuiet(_, _)
OnlyQuiet(s, i) ==
  IF i > Len(s) THEN TRUE
  ELSE IF s[i] \in {N_drain, N_minus_drain, N_size, N_speed} THEN OnlyQuiet(s, i + 1)
  ELSE IF s[i] \in {N_rows, N_cols, N_columns} /\ i < Len(s)
          /\ integer_arg(s[i + 1], INT_MAX).ok
    THEN OnlyQuiet(s, i + 2)
  ELSE FALSE

\* C3: tcsetattr is called at most once, as the last call, after every token
\* of the real pass was processed and with the write-back flag set by one of
\* them; a list made only of drain / -drain, size, speed, rows N and
\* cols N / columns N never leads to the call.
C3_WriteBackOnceAndOnlyWhenRequired ==
  /\ Cardinality(SetAttrCalls) <= 1
  /\ SetAttrCalls # {}
       => /\ SetAttrCalls = {Len(calls)}
          /\ pc = "done"
          /\ k > Len(settings)
          /\ require_set_attr
  /\ OnlyQuiet(settings, 1) => SetAttrCalls = {}

\* the write-back happened after a list of two or more tokens
C3_Witness ==
  /\ SetAttrCalls # {}
  /\ Len(settings) >= 2
  /\ pc = "done"

\* C4: the timing handed to tcsetattr is the apply-timing flag the token list
\* left: TCSADRAIN by default and after drain, TCSANOW when the last
\* drain / -drain token was -drain.
C4_TimingIsTheFlag ==
  \A i \in SetAttrCalls : calls[i].arg = tcsetattr_options

\* decode (encode (S)) into the target T
RoundTrip(S, T) == recover_mode(impl, SavedToken(S), <<>>, T)

\* the saved states among the tokens, and the snapshot one was printed for
SavedTokens == {SavedToken(S) : S \in TtyModes}
SavedOf(tok) == CHOOSE S \in TtyModes : SavedToken(S) = tok

\* T with the flag words and the control characters of S
Recovered(S, T) ==
  [T EXCEPT !.c_iflag = S.c_iflag, !.c_oflag = S.c_oflag,
            !.c_cflag = S.c_cflag, !.c_lflag = S.c_lflag, !.c_cc = S.c_cc]

HasColon(tok) == \E i \in DOMAIN tok : tok[i] = ":"

\* the fields of a token, split at its colons
RECURSIVE Fields(_)
Fields(s) ==
  IF ~HasColon(s) THEN <<s>>
  ELSE LET p == CHOOSE i \in DOMAIN s : s[i] = ":" /\ \A j \in 1 .. (i - 1) : s[j] # ":"
       IN <<SubSeq(s, 1, p - 1)>> \o Fields(SubSeq(s, p + 1, Len(s)))

\* a field is a non-empty hexadecimal number of at most bits bits
HexField(f, bits) ==
  /\ f # <<>>
  /\ \A i \in DOMAIN f : IsHexDigit(f[i])
  /\ 4 * (Len(f) - (SkipZeros(f, 1) - 1)) <= bits

\* the grammar of a saved state: 4 flag fields and NCCS control bytes
WellFormedSaved(tok) ==
  /\ Len(Fields(tok)) = Len(FlagFields) + NCCS
  /\ \A i \in 1 .. Len(Fields(tok)) :
       HexField(Fields(tok)[i], IF i <= Len(FlagFields) THEN TCFLAG_BITS ELSE 8)

\* C6: a token tried as a saved state is accepted only if it is exactly 4
\* flag fields and NCCS control bytes, each a non-empty hexadecimal number
\* in range, with single colons between and nothing behind; every other such
\* token ends in the fatal "invalid argument".
C6_OnlyWellFormedSavedStateAccepted ==
  (JustStepped /\ HasColon(LastToken))
    => /\ (status = "running") <=> WellFormedSaved(LastToken)
       /\ status = "failure" => err = [msg |-> "invalid argument", arg |-> LastToken]

\* C7: when recover_mode has failed on a token, the snapshot is what it was
\* before the call.
C7_FailedRecoverLeavesSnapshot ==
  (JustStepped /\ HasColon(LastToken) /\ status = "failure")
    => mode = before.mode

\* the registry entries sane_mode may edit
SaneFlagged ==
  {i \in 1 .. Len(mode_info) :
     /\ mode_info[i].type # "combination"
     /\ HasFlag(mode_info[i], SANE_SET \cup SANE_UNSET)}

\* the snapshot m has every sane-flagged entry at its default and every
\* control character at its sane value
IsSane(m) ==
  /\ \A i \in SaneFlagged :
       IF HasFlag(mode_info[i], SANE_SET)
         THEN mode_info[i].bits \subseteq FlagWord(mode_info[i].type, m)
         ELSE mode_info[i].bits \cap FlagWord(mode_info[i].type, m) = {}
  /\ \A j \in 1 .. Len(control_info) :
       m.c_cc[control_info[j].offset] = control_info[j].saneval

\* set_mode for the entry named name
Apply(name, reversed, m) ==
  set_mode(impl, mode_info[LookupMode(name)], reversed, m).mode

\* m is sane and sane leaves it as it is
SaneFixed(m) == IsSane(m) /\ Apply(N_sane, FALSE, m) = m

\* C8: sane applied to any snapshot a run leaves or meets leaves every sane-flagged
\* entry at its default (bits set for SANE_SET, bits clear for SANE_UNSET)
\* and every control character at its sane value, and sane applied again
\* changes nothing.
C8_SaneIsCanonicalAndIdempotent ==
  /\ Settled => SaneFixed(Apply(N_sane, FALSE, mode))
  /\ (JustStepped /\ LastToken = N_sane)
       => /\ status = "running"
          /\ SaneFixed(mode)

\* the real pass applied sane to OddTty and changed it
C8_Witness ==
  /\ JustStepped
  /\ last.pass = "apply"
  /\ LastToken = N_sane
  /\ before.mode = OddTty
  /\ mode # OddTty
  /\ IsSane(mode)

\* the reversible entries that name bits of one flag word
ReversibleFlags ==
  {i \in 1 .. Len(mode_info) :
     mode_info[i].type # "combination" /\ HasFlag(mode_info[i], REV)}

\* the bits an entry affects
Affected(i) == mode_info[i].mask \cup mode_info[i].bits

\* the entry of index i applied un-negated, then negated
SetThenUnset(i, m) ==
  set_mode(impl, mode_info[i], TRUE, set_mode(impl, mode_info[i], FALSE, m).mode).mode

\* the list is an entry's name and then its negation, and both were applied
SetUnsetRun(i) ==
  /\ JustStepped
  /\ last.k = 2
  /\ Len(settings) >= 2
  /\ settings[1] = mode_info[i].name
  /\ settings[2] = <<"-">> \o mode_info[i].name

\* C9 as stated: for every reversible entry and every snapshot S a run leaves,
\* the entry applied to S and then negated gives a snapshot equal to S on
\* the bits the entry affects.
C9_SetThenUnsetRestores ==
  \A i \in ReversibleFlags :
    /\ Settled =>
       FlagWord(mode_info[i].type, SetThenUnset(i, mode)) \cap Affected(i)
         = FlagWord(mode_info[i].type, mode) \cap Affected(i)
    /\ SetUnsetRun(i)
         => FlagWord(mode_info[i].type, mode) \cap Affected(i)
              = FlagWord(mode_info[i].type, StartMode) \cap Affected(i)

\* C9 amended: for every reversible entry that names bits of one flag word
\* and every snapshot S a run leaves, the entry applied to S and then negated
\* gives S with every bit the entry affects (mask | bits) clear, whatever S
\* held there: it equals S on those bits only where S had them clear.
C9_SetThenUnsetClears ==
  \A i \in ReversibleFlags :
    /\ Settled =>
       SetThenUnset(i, mode)
         = WithFlagWord(mode_info[i].type, mode,
                        FlagWord(mode_info[i].type, mode) \ Affected(i))
    /\ SetUnsetRun(i)
         => /\ status = "running"
            /\ mode = WithFlagWord(mode_info[i].type, StartMode,
                                   FlagWord(mode_info[i].type, StartMode) \ Affected(i))

\* the real pass applied parenb and -parenb to a device that had PARENB set
C9_Witness ==
  /\ JustStepped
  /\ last.pass = "apply"
  /\ last.k = 2
  /\ settings = <<<<"p","a","r","e","n","b">>, <<"-","p","a","r","e","n","b">>>>
  /\ PARENB \subseteq tty.c_cflag
  /\ PARENB \cap mode.c_cflag = {}

\* the flags raw and cooked both govern
RawCookedInput == BRKINT \cup IGNPAR \cup ISTRIP \cup ICRNL \cup IXON
RawCookedLocal == ISIG \cup ICANON

Governed(m) ==
  [c_iflag |-> m.c_iflag \cap RawCookedInput,
   c_oflag |-> m.c_oflag \cap OPOST,
   c_lflag |-> m.c_lflag \cap RawCookedLocal]

AllGovernedSet ==
  [c_iflag |-> RawCookedInput, c_oflag |-> OPOST, c_lflag |-> RawCookedLocal]

NoneGovernedSet == [c_iflag |-> {}, c_oflag |-> {}, c_lflag |-> {}]

\* the list is the two given names and both were applied
PairRun(first, second) ==
  /\ JustStepped
  /\ last.k = 2
  /\ settings = <<first, second>>

\* C10 as stated: raw then cooked, and cooked then raw, leave ISIG, ICANON,
\* OPOST, BRKINT, IGNPAR, ISTRIP, ICRNL and IXON as they were in the
\* snapshot they started from.
C10_RawCookedRestores ==
  /\ Settled
       => /\ Governed(Apply(N_cooked, FALSE, Apply(N_raw, FALSE, mode))) = Governed(mode)
          /\ Governed(Apply(N_raw, FALSE, Apply(N_cooked, FALSE, mode))) = Governed(mode)
  /\ (PairRun(N_raw, N_cooked) \/ PairRun(N_cooked, N_raw))
       => Governed(mode) = Governed(StartMode)

\* C10 amended: raw then cooked leaves ISIG, ICANON, OPOST, BRKINT, IGNPAR,
\* ISTRIP, ICRNL and IXON all set, and cooked then raw leaves them all clear
\* (with the rest of c_iflag), whatever the start snapshot held: the start
\* values come back only where they were already so.
C10_RawCookedEndsFixed ==
  /\ Settled
       => /\ Governed(Apply(N_cooked, FALSE, Apply(N_raw, FALSE, mode))) = AllGovernedSet
          /\ Governed(Apply(N_raw, FALSE, Apply(N_cooked, FALSE, mode))) = NoneGovernedSet
          /\ Apply(N_raw, FALSE, Apply(N_cooked, FALSE, mode)).c_iflag = {}
  /\ PairRun(N_raw, N_cooked) => (status = "running" /\ Governed(mode) = AllGovernedSet)
  /\ PairRun(N_cooked, N_raw) => (status = "running" /\ Governed(mode) = NoneGovernedSet)

\* the real pass applied raw and cooked and ended with other flags than the
\* device had
C10_Witness ==
  /\ PairRun(N_raw, N_cooked)
  /\ last.pass = "apply"
  /\ status = "running"
  /\ Governed(mode) # Governed(tty)

\* the token -evenp
MinusEvenp == <<"-">> \o N_evenp

\* C11 as stated: -evenp applied to any snapshot a run leaves or meets gives a
\* control flag word with character size CS8 and with PARENB and PARODD both
\* clear.
C11_MinusEvenpClearsParity ==
  /\ Settled
       => /\ Apply(N_evenp, TRUE, mode).c_cflag \cap CSIZE = CS8
          /\ Apply(N_evenp, TRUE, mode).c_cflag \cap (PARENB \cup PARODD) = {}
  /\ (JustStepped /\ LastToken = MinusEvenp)
       => /\ mode.c_cflag \cap CSIZE = CS8
          /\ mode.c_cflag \cap (PARENB \cup PARODD) = {}

\* C11 amended: -evenp applied to any snapshot gives a control flag word
\* with character size CS8 and PARENB clear; PARODD and every other bit of
\* the snapshot stay as they were.
C11_MinusEvenpKeepsParodd ==
  /\ Settled
       => Apply(N_evenp, TRUE, mode)
            = [mode EXCEPT !.c_cflag = (@ \ (PARENB \cup CSIZE)) \cup CS8]
  /\ (JustStepped /\ LastToken = MinusEvenp)
       => /\ status = "running"
          /\ mode = [before.mode EXCEPT !.c_cflag = (@ \ (PARENB \cup CSIZE)) \cup CS8]

\* the real pass applied -evenp to a device with odd parity and 7 bits:
\* PARODD is still set
C11_Witness ==
  /\ JustStepped
  /\ last.pass = "apply"
  /\ LastToken = MinusEvenp
  /\ before.mode.c_cflag \cap (CSIZE \cup PARENB \cup PARODD) = CS7 \cup PARENB \cup PARODD
  /\ mode.c_cflag \cap (CSIZE \cup PARENB \cup PARODD) = CS8 \cup PARODD

\* the token list is one bare baud token
OneBaudToken ==
  /\ Len(settings) = 1
  /\ string_to_baud(settings[1]) # BAUD_INVALID

\* C12: for a token list that is one bare baud token, the iteration on it
\* leaves the input and the output baud identifier of the snapshot both at
\* the identifier of that value; the real pass sets the write-back flag, and
\* a run without -a or -g that has read the device ends with the
\* set-attributes call made.
C12_BareBaudSetsBothSpeeds ==
  OneBaudToken
    => /\ JustStepped
            => /\ status = "running"
               /\ cfgetispeed(mode) = string_to_baud(settings[1])
               /\ cfgetospeed(mode) = string_to_baud(settings[1])
               /\ last.pass = "apply" => require_set_attr
       /\ (pc = "done" /\ err.msg \notin {"tcgetattr", StyleWithModes})
            => SetAttrCalls # {}

\* the run on 19200 alone has written back a snapshot with both speeds at
\* B19200 to a device that ran at another speed
C12_Witness ==
  /\ settings = << <<"1","9","2","0","0">> >>
  /\ SetAttrCalls # {}
  /\ status = "success"
  /\ cfgetispeed(mode) = B19200
  /\ cfgetospeed(mode) = B19200
  /\ tty.c_ispeed = B19200
  /\ B19200 \notin {B38400, value_to_baud(9600)}

\* a display run in the given output style has ended: out is what it printed
\* for the snapshot mode
Printed(style) ==
  /\ pc = "done"
  /\ status = "success"
  /\ noargs
  /\ output_type = style

\* the text is one of the items printed (an item may end in a newline)
Shows(text) ==
  \E i \in DOMAIN out : out[i] = text \/ out[i] = text \o <<"\n">>

HasPrefix(item, p) == Len(item) >= Len(p) /\ SubSeq(item, 1, Len(p)) = p

Negated(name) == <<"-">> \o name

\* the snapshot is one raw leaves
RawLeft(m) == \E i \in Impls : set_mode(i, mode_info[LookupMode(N_raw)], FALSE, m).mode = m

\* the default-set reversible entries shown in the output styles
DefaultSetReversible ==
  {j \in 1 .. Len(mode_info) :
     /\ ~HasFlag(mode_info[j], OMIT)
     /\ HasFlag(mode_info[j], SANE_SET)
     /\ HasFlag(mode_info[j], REV)}

\* C13: the changed-only output for a snapshot raw has left shows -icanon,
\* -isig, -opost, -brkint and -icrnl and the negated name of every other
\* default-set reversible entry whose bits are clear, shows the item
\* "min = 1; time = 0;", and shows min and time in no other item.
C13_RawShownInChangedMode ==
  (Printed("changed") /\ RawLeft(mode))
    => /\ \A name \in {<<"i","c","a","n","o","n">>, <<"i","s","i","g">>, <<"o","p","o","s","t">>, <<"b","r","k","i","n","t">>, <<"i","c","r","n","l">>} :
            Shows(Negated(name))
       /\ \A j \in DefaultSetReversible :
            (mode_info[j].bits \cap FlagWord(mode_info[j].type, mode) = {})
              => Shows(Negated(mode_info[j].name))
       /\ Shows(<<"m","i","n"," ","="," ","1",";"," ","t","i","m","e"," ","="," ","0",";">>)
       /\ \A i \in DOMAIN out :
            (HasPrefix(out[i], <<"m","i","n"," ","="," ">>) \/ HasPrefix(out[i], <<"t","i","m","e"," ","="," ">>))
              => out[i] \in {<<"m","i","n"," ","="," ","1",";"," ","t","i","m","e"," ","="," ","0",";">>, <<"m","i","n"," ","="," ","1",";"," ","t","i","m","e"," ","="," ","0",";","\n">>}

\* stty has printed the changed-only output for a device raw was applied to
\* in its odd state: intr is shown as a character, min and time as numbers
C13_Witness ==
  /\ Printed("changed")
  /\ RawLeft(mode)
  /\ mode.c_cc = [OddTty.c_cc EXCEPT ![VMIN] = 1, ![VTIME] = 0]
  /\ Shows(Negated(<<"i","c","a","n","o","n">>))
  /\ Shows(<<"i","n","t","r"," ","="," ","^","?",";">>)
  /\ Shows(<<"m","i","n"," ","="," ","1",";"," ","t","i","m","e"," ","="," ","0",";">>)

\* the value the stated rules give the argument of a control-character slot
StatedControlValue(name, arg) ==
  IF name \in {N_min, N_time} THEN integer_arg(arg, CC_MAX)
  ELSE IF Len(arg) <= 1 THEN [ok |-> TRUE, value |-> to_uchar(CharAt(arg, 1))]
  ELSE IF arg \in {N_undef_caret, N_undef} THEN [ok |-> TRUE, value |-> POSIX_VDISABLE]
  ELSE IF arg = <<"^", "?">> THEN [ok |-> TRUE, value |-> 127]
  ELSE IF Len(arg) = 2 /\ arg[1] = "^" THEN [ok |-> TRUE, value |-> to_uchar(arg[2]) % 32]
  ELSE integer_arg(arg, CC_MAX)

\* the iteration was on the name of a control-character slot with an
\* argument behind it
ControlCharStep ==
  /\ JustStepped
  /\ LookupMode(LastToken) = 0
  /\ LookupControl(LastToken) # 0
  /\ last.k < Len(settings)

\* what the stated rules leave of the state the iteration started in
StatedControlOutcome(info, d) ==
  IF d.ok
    THEN /\ status = "running"
         /\ mode = [before.mode EXCEPT !.c_cc[info.offset] = d.value]
    ELSE /\ status = "failure"
         /\ err.msg = "invalid integer argument"

\* C14: an iteration on a control-character name and its argument stores in
\* the slot: for min and time the argument read as an integer of the byte
\* range; for the other slots the byte of an empty or one-character
\* argument, the disable value for "^-" and "undef", 127 for "^?", c AND
\* 0x1F for '^' and exactly one character c, and the integer of the byte
\* range for every other argument (fatal if it is none).
C14_ControlCharDecoding ==
  ControlCharStep
    => StatedControlOutcome(control_info[LookupControl(LastToken)],
                            StatedControlValue(LastToken, settings[last.k + 1]))

\* the stated rendering of a byte below 128 that is not the disable value
StatedLow(c) ==
  IF c < 32 THEN <<"^", CharOf(c + 64)>>
  ELSE IF c = 127 THEN <<"^", "?">>
  ELSE <<CharOf(c)>>

\* the stated rendering of a control byte
StatedVisible(ch) ==
  IF ch = POSIX_VDISABLE THEN T_undef
  ELSE IF ch >= 128 THEN <<"M", "-">> \o StatedLow(ch - 128)
  ELSE StatedLow(ch)

\* the control-character entries the output styles print through visible
VisibleSlots ==
  {j \in 1 .. Len(control_info) :
     control_info[j].name \notin {N_min, N_time, N_flush}}

\* the item of a slot with the stated rendering of its byte
StatedItem(j) ==
  control_info[j].name \o <<" ","="," ">> \o StatedVisible(mode.c_cc[control_info[j].offset]) \o <<";">>

\* C15: every control byte a display run prints is rendered as stated:
\* "<undef>" for the disable value, "M-" and the rendering of the low seven
\* bits for a byte with the high bit set, '^' and the character of value +
\* 0x40 below 0x20, "^?" for 127, the character itself otherwise.  The
\* all-settings output prints every slot, the changed-only output the slots
\* that are not at their sane value.
C15_VisibleRendering ==
  /\ Printed("all") => \A j \in VisibleSlots : Shows(StatedItem(j))
  /\ Printed("changed")
       => \A j \in VisibleSlots :
            mode.c_cc[control_info[j].offset] # control_info[j].saneval
              => Shows(StatedItem(j))

\* the index of the first '.' of a token, Len + 1 when it has none
DotAt(tok) ==
  IF \E i \in DOMAIN tok : tok[i] = "."
    THEN CHOOSE i \in DOMAIN tok : tok[i] = "." /\ \A j \in 1 .. (i - 1) : tok[j] # "."
    ELSE Len(tok) + 1

\* the stated rounding of the whole number n with the fraction digits f
StatedRound(n, f) ==
  IF f = <<>> THEN n
  ELSE IF HexVal(f[1]) > 5 THEN n + 1
  ELSE IF HexVal(f[1]) < 5 THEN n
  ELSE IF \A i \in 2 .. Len(f) : f[i] = "0" THEN (IF n % 2 = 0 THEN n ELSE n + 1)
  ELSE n + 1

\* the stated result for a token N[.F]: the speed of the rounded value, the
\* invalid value for a leading '-' and for a character behind the '.' that
\* is no digit
StatedBaud(tok) ==
  LET whole == SubSeq(tok, 1, DotAt(tok) - 1)
      fraction == SubSeq(tok, DotAt(tok) + 1, Len(tok))
  IN IF tok[1] = "-" THEN BAUD_INVALID
     ELSE IF \E i \in DOMAIN fraction : ~IsDigit(fraction[i]) THEN BAUD_INVALID
     ELSE value_to_baud(StatedRound(DigitsValue(whole, 1, Len(whole) + 1, 10), fraction))

\* the iteration was on ospeed with one of the decimal tokens behind it
RoundingStep ==
  /\ JustStepped
  /\ last.k = 1
  /\ Len(settings) = 2
  /\ settings[1] = N_ospeed
  /\ settings[2] \in RoundingTokens

\* C16: string_to_baud on N[.F] gives the speed of N rounded to the nearest
\* integer, ties to even: N for a fraction below one half, N + 1 above, and
\* for exactly one half (5 and then only zeros) N when N is even and N + 1
\* when N is odd; a character that is no digit behind the fraction and a
\* leading '-' give the invalid value, which ends ospeed in its fatal error.
C16_BaudRoundsHalfToEven ==
  RoundingStep
    => IF StatedBaud(settings[2]) = BAUD_INVALID
         THEN /\ status = "failure"
              /\ err = [msg |-> invalid_speed_msg(impl, N_ospeed), arg |-> settings[2]]
         ELSE /\ status = "running"
              /\ cfgetospeed(mode) = StatedBaud(settings[2])

\* ospeed 133.5 was rounded up to 134 and ospeed 134.5 down to 134
C16_Witness ==
  /\ RoundingStep
  /\ settings[2] \in {<<"1","3","3",".","5">>, <<"1","3","4",".","5","0">>}
  /\ cfgetospeed(mode) = value_to_baud(134)
  /\ status = "running"

\* the names that take the next token as their argument
ArgumentNames == {N_ispeed, N_ospeed, N_rows, N_cols, N_columns, N_line}

\* the token is a setting with an argument
TakesArgument(tok) ==
  /\ LookupMode(tok) = 0
  /\ LookupControl(tok) # 0 \/ tok \in ArgumentNames

\* C17: an iteration on a token that takes an argument steps over exactly
\* one following token; on the last token of the list it ends in the fatal
\* error "missing argument to", at that token and with the snapshot as the
\* iteration found it.
C17_ArgumentConsumedOrMissing ==
  (JustStepped /\ TakesArgument(LastToken))
    => IF last.k = Len(settings)
         THEN /\ status = "failure"
              /\ err = [msg |-> "missing argument to", arg |-> LastToken]
              /\ mode = before.mode
              /\ k = last.k
         ELSE status = "running" => k = last.k + 2

\* the token is an integer that c_line cannot hold
BeyondLine(tok) ==
  /\ integer_arg(tok, INT_MAX).ok
  /\ integer_arg(tok, INT_MAX).value > CC_MAX

\* the iteration was on line with such an integer behind it
LineOverflowStep ==
  /\ JustStepped
  /\ LastToken = N_line
  /\ last.k < Len(settings)
  /\ BeyondLine(settings[last.k + 1])

\* C18: an argument of line that is an integer c_line cannot hold is fatal:
\* the iteration on it ends the run with failure, and a run of line and
\* such an argument calls tcsetattr not once.
C18_LineOverflowIsFatal ==
  /\ LineOverflowStep => status = "failure" /\ pc = "done"
  /\ (Len(settings) = 2 /\ settings[1] = N_line /\ BeyondLine(settings[2]))
       => SetAttrCalls = {}

\* the registry entries the output styles do not leave out
Displayed == {j \in 1 .. Len(mode_info) : ~HasFlag(mode_info[j], OMIT)}

\* the masked flag word of the snapshot equals the entry's bits
BitsSet(j) == bits_match(mode_info[j], mode)

\* C19: the changed-only output shows the plain name of an entry that is
\* not left out exactly when its bits are set and it is flagged
\* default-unset, and its negated name exactly when its bits are not set and
\* it is flagged default-set and reversible.
C19_ChangedModeShowsDifferences ==
  Printed("changed")
    => \A j \in Displayed :
         /\ Shows(mode_info[j].name)
              <=> (BitsSet(j) /\ HasFlag(mode_info[j], SANE_UNSET))
         /\ Shows(Negated(mode_info[j].name))
              <=> (~BitsSet(j) /\ HasFlag(mode_info[j], SANE_SET) /\ HasFlag(mode_info[j], REV))

\* stty has printed the changed-only output of a device with every flag bit
\* set: the default-unset ixany by its name, the default-set echo not at
\* all, and with no bit set -echo and no ixany
C19_Witness ==
  /\ Printed("changed")
  /\ \/ /\ mode = AllSetTty
        /\ Shows(<<"i","x","a","n","y">>)
        /\ ~Shows(<<"e","c","h","o">>)
        /\ ~Shows(Negated(<<"e","c","h","o">>))
     \/ /\ mode.c_lflag = {}
        /\ Shows(Negated(<<"e","c","h","o">>))
        /\ ~Shows(<<"i","x","a","n","y">>)

\* the groups of entries that name the values of one field
ValueGroups ==
  {{<<"c","s","5">>, <<"c","s","6">>, <<"c","s","7">>, <<"c","s","8">>},
   {<<"n","l","0">>, <<"n","l","1">>},
   {<<"c","r","0">>, <<"c","r","1">>, <<"c","r","2">>, <<"c","r","3">>},
   {<<"t","a","b","0">>, <<"t","a","b","1">>, <<"t","a","b","2">>, <<"t","a","b","3">>},
   {<<"b","s","0">>, <<"b","s","1">>},
   {<<"v","t","0">>, <<"v","t","1">>},
   {<<"f","f","0">>, <<"f","f","1">>}}

\* C20: the all-settings output shows the plain name of an entry that is
\* not left out exactly when its bits are set, and its negated name exactly
\* when they are not and the entry is reversible; of each group of value
\* names (cs5..cs8, nl0 nl1, cr0..cr3, tab0..tab3, bs0 bs1, vt0 vt1, ff0
\* ff1) it shows exactly one.
C20_AllModeShowsEveryEntry ==
  Printed("all")
    => /\ \A j \in Displayed :
            /\ Shows(mode_info[j].name) <=> BitsSet(j)
            /\ Shows(Negated(mode_info[j].name))
                 <=> (~BitsSet(j) /\ HasFlag(mode_info[j], REV))
       /\ \A G \in ValueGroups : Cardinality({name \in G : Shows(name)}) = 1

\* stty -a has printed the settings of a device that cs5 or tab2 was applied
\* to: the value is shown by its name, parenb by its plain or negated name
C20_Witness ==
  /\ Printed("all")
  /\ \/ Shows(<<"c","s","5">>) /\ ~Shows(<<"c","s","8">>)
     \/ Shows(<<"t","a","b","2">>) /\ ~Shows(<<"t","a","b","0">>)
  /\ Shows(<<"p","a","r","e","n","b">>) \/ Shows(Negated(<<"p","a","r","e","n","b">>))
  /\ \E j \in Displayed : ~BitsSet(j) /\ ~HasFlag(mode_info[j], REV)

\* the snapshot after the tokens of a documented expansion are applied one
\* by one: a registry name, plain or negated, by set_mode; the name of a
\* control character and its argument by set_control_char
RECURSIVE ApplyExpansion(_, _, _)
ApplyExpansion(i, toks, m) ==
  IF toks = <<>> THEN m
  ELSE LET t == Head(toks)
           reversed == t[1] = "-"
           name == IF reversed THEN Tail(t) ELSE t
       IN IF LookupMode(name) # 0
            THEN ApplyExpansion(i, Tail(toks),
                                set_mode(i, mode_info[LookupMode(name)], reversed, m).mode)
            ELSE ApplyExpansion(i, Tail(Tail(toks)),
                                set_control_char(i, control_info[LookupControl(name)],
                                                 toks[2], m).mode)

\* the iteration was on the token and did not end the run
Applied(tok) == JustStepped /\ LastToken = tok /\ status = "running"

\* the documented expansion of raw
RawExpansion ==
  <<<<"-","i","g","n","b","r","k">>, <<"-","b","r","k","i","n","t">>, <<"-","i","g","n","p","a","r">>, <<"-","p","a","r","m","r","k">>, <<"-","i","n","p","c","k">>, <<"-","i","s","t","r","i","p">>, <<"-","i","n","l","c","r">>, <<"-","i","g","n","c","r">>, <<"-","i","c","r","n","l">>, <<"-","i","x","o","n">>, <<"-","i","x","o","f","f">>, <<"-","i","c","a","n","o","n">>, <<"-","o","p","o","s","t">>, <<"-","i","s","i","g">>, <<"-","i","u","c","l","c">>, <<"-","i","x","a","n","y">>, <<"-","i","m","a","x","b","e","l">>, <<"-","x","c","a","s","e">>, <<"m","i","n">>, <<"1">>, <<"t","i","m","e">>, <<"0">>>>

\* C21: an iteration on raw or on -cooked leaves the snapshot that -ignbrk
\* -brkint -ignpar -parmrk -inpck -istrip -inlcr -igncr -icrnl -ixon -ixoff
\* -icanon -opost -isig -iuclc -ixany -imaxbel -xcase min 1 time 0, applied
\* in this order to the snapshot it found, leave.
C21_RawIsItsExpansion ==
  (Applied(<<"r","a","w">>) \/ Applied(<<"-","c","o","o","k","e","d">>))
    => mode = ApplyExpansion(impl, RawExpansion, before.mode)

\* the documented expansion of cooked: its flags, then eof and eol at their
\* default values
CookedExpansion(i, m) ==
  [ApplyExpansion(i, <<<<"b","r","k","i","n","t">>, <<"i","g","n","p","a","r">>, <<"i","s","t","r","i","p">>, <<"i","c","r","n","l">>, <<"i","x","o","n">>, <<"o","p","o","s","t">>, <<"i","s","i","g">>, <<"i","c","a","n","o","n">>>>, m)
     EXCEPT !.c_cc[VEOF] = CEOF, !.c_cc[VEOL] = CEOL]

\* C22: an iteration on cooked or on -raw leaves the snapshot that brkint
\* ignpar istrip icrnl ixon opost isig icanon, applied in this order to the
\* snapshot it found, and the default values in the eof and eol slots leave.
C22_CookedIsItsExpansion ==
  (Applied(<<"c","o","o","k","e","d">>) \/ Applied(<<"-","r","a","w">>))
    => mode = CookedExpansion(impl, before.mode)

\* C23: an iteration on decctlq leaves the snapshot ixany leaves, and one
\* on -decctlq the snapshot -ixany leaves.
C23_DecctlqIsIxany ==
  /\ Applied(<<"d","e","c","c","t","l","q">>) => mode = ApplyExpansion(impl, <<<<"i","x","a","n","y">>>>, before.mode)
  /\ Applied(<<"-","d","e","c","c","t","l","q">>) => mode = ApplyExpansion(impl, <<<<"-","i","x","a","n","y">>>>, before.mode)

\* the combination settings and their documented expansions
Documented ==
  {[token |-> <<"c","b","r","e","a","k">>,
    same |-> <<<<"-","i","c","a","n","o","n">>>>],
   [token |-> <<"-","c","b","r","e","a","k">>,
    same |-> <<<<"i","c","a","n","o","n">>>>],
   [token |-> <<"e","v","e","n","p">>,
    same |-> <<<<"p","a","r","e","n","b">>, <<"-","p","a","r","o","d","d">>, <<"c","s","7">>>>],
   [token |-> <<"p","a","r","i","t","y">>,
    same |-> <<<<"p","a","r","e","n","b">>, <<"-","p","a","r","o","d","d">>, <<"c","s","7">>>>],
   [token |-> <<"-","e","v","e","n","p">>,
    same |-> <<<<"-","p","a","r","e","n","b">>, <<"c","s","8">>>>],
   [token |-> <<"-","p","a","r","i","t","y">>,
    same |-> <<<<"-","p","a","r","e","n","b">>, <<"c","s","8">>>>],
   [token |-> <<"-","o","d","d","p">>,
    same |-> <<<<"-","p","a","r","e","n","b">>, <<"c","s","8">>>>],
   [token |-> <<"o","d","d","p">>,
    same |-> <<<<"p","a","r","e","n","b">>, <<"p","a","r","o","d","d">>, <<"c","s","7">>>>],
   [token |-> <<"p","a","s","s","8">>,
    same |-> <<<<"-","p","a","r","e","n","b">>, <<"-","i","s","t","r","i","p">>, <<"c","s","8">>>>],
   [token |-> <<"-","p","a","s","s","8">>,
    same |-> <<<<"p","a","r","e","n","b">>, <<"i","s","t","r","i","p">>, <<"c","s","7">>>>],
   [token |-> <<"l","i","t","o","u","t">>,
    same |-> <<<<"-","p","a","r","e","n","b">>, <<"-","i","s","t","r","i","p">>, <<"-","o","p","o","s","t">>, <<"c","s","8">>>>],
   [token |-> <<"-","l","i","t","o","u","t">>,
    same |-> <<<<"p","a","r","e","n","b">>, <<"i","s","t","r","i","p">>, <<"o","p","o","s","t">>, <<"c","s","7">>>>],
   [token |-> <<"n","l">>,
    same |-> <<<<"-","i","c","r","n","l">>, <<"-","o","n","l","c","r">>>>],
   [token |-> <<"-","n","l">>,
    same |-> <<<<"i","c","r","n","l">>, <<"-","i","n","l","c","r">>, <<"-","i","g","n","c","r">>, <<"o","n","l","c","r">>, <<"-","o","c","r","n","l">>, <<"-","o","n","l","r","e","t">>>>],
   [token |-> <<"t","a","b","s">>,
    same |-> <<<<"t","a","b","0">>>>],
   [token |-> <<"-","t","a","b","s">>,
    same |-> <<<<"t","a","b","3">>>>],
   [token |-> <<"c","r","t">>,
    same |-> <<<<"e","c","h","o","e">>, <<"e","c","h","o","c","t","l">>, <<"e","c","h","o","k","e">>>>],
   [token |-> <<"d","e","c">>,
    same |-> <<<<"e","c","h","o","e">>, <<"e","c","h","o","c","t","l">>, <<"e","c","h","o","k","e">>, <<"-","i","x","a","n","y">>, <<"i","n","t","r">>, <<"^","c">>, <<"e","r","a","s","e">>, <<"0","1","7","7">>, <<"k","i","l","l">>, <<"^","u">>>>],
   [token |-> <<"l","c","a","s","e">>,
    same |-> <<<<"x","c","a","s","e">>, <<"i","u","c","l","c">>, <<"o","l","c","u","c">>>>],
   [token |-> <<"L","C","A","S","E">>,
    same |-> <<<<"x","c","a","s","e">>, <<"i","u","c","l","c">>, <<"o","l","c","u","c">>>>]}

\* C24: an iteration on cbreak, -cbreak, evenp, parity, -evenp, -parity,
\* oddp, -oddp, pass8, -pass8, litout, -litout, nl, -nl, tabs, -tabs, crt,
\* dec, lcase or LCASE leaves the snapshot that the tokens of its documented
\* expansion, applied one by one to the snapshot it found, leave; an
\* iteration on ek leaves that snapshot with erase and kill at their default
\* values and nothing else changed.
C24_CombinationIsItsExpansion ==
  /\ \A d \in Documented :
       Applied(d.token) => mode = ApplyExpansion(impl, d.same, before.mode)
  /\ Applied(<<"e","k">>)
       => mode = [before.mode EXCEPT !.c_cc[VERASE] = CERASE, !.c_cc[VKILL] = CKILL]

\* dec was applied to a device with other intr, erase and kill characters
\* and ixany set, -nl to one with onlret set, evenp to one with parodd set
C24_Witness ==
  \/ /\ Applied(<<"d","e","c">>)
     /\ before.mode.c_cc[VINTR] = 127
     /\ IXANY \subseteq before.mode.c_iflag
     /\ mode.c_cc[VINTR] = 3 /\ mode.c_cc[VERASE] = 127 /\ mode.c_cc[VKILL] = 21
     /\ IXANY \cap mode.c_iflag = {}
  \/ /\ Applied(<<"-","n","l">>)
     /\ ONLRET \subseteq before.mode.c_oflag
     /\ ONLRET \cap mode.c_oflag = {}
  \/ /\ Applied(<<"e","v","e","n","p">>)
     /\ PARODD \subseteq before.mode.c_cflag
     /\ mode.c_cflag \cap (PARODD \cup CSIZE \cup PARENB) = PARENB \cup CS7

\* the control-character slots that have a name
NamedSlots == {control_info[i].offset : i \in 1 .. Len(control_info)}

\* the output has the item "min = ...; time = ...;"
MinTimeShown == \E o \in DOMAIN out : HasPrefix(out[o], <<"m","i","n"," ","="," ">>)

\* the output has an item "name = ..." for a name of the slot; min and
\* time share one item
SlotShown(s) ==
  IF s \in {VMIN, VTIME} THEN MinTimeShown
  ELSE \E i \in 1 .. Len(control_info) :
         /\ control_info[i].offset = s
         /\ \E o \in DOMAIN out : HasPrefix(out[o], control_info[i].name \o <<" ","="," ">>)

\* the slot differs from its value in the snapshot sane
SlotDeviates(s, sane) == mode.c_cc[s] # sane.c_cc[s]

\* the registry entries sane sets or clears
SaneFlaggedEntries ==
  {j \in 1 .. Len(mode_info) :
     HasFlag(mode_info[j], SANE_SET) \/ HasFlag(mode_info[j], SANE_UNSET)}

\* the entry's bits are set in the snapshot and not in the snapshot sane,
\* or the other way round
EntryDeviates(j, sane) == BitsSet(j) # bits_match(mode_info[j], sane)

\* the entry is in the output by its plain or its negated name
EntryShown(j) == Shows(mode_info[j].name) \/ Shows(Negated(mode_info[j].name))

RECURSIVE Foldable(_, _)
Foldable(toks, i) ==
  IF i > Len(toks) THEN TRUE
  ELSE LET name == IF toks[i][1] = "-" THEN Tail(toks[i]) ELSE toks[i]
       IN IF LookupMode(name) # 0
            THEN ~HasFlag(mode_info[LookupMode(name)], NO_SETATTR) /\ Foldable(toks, i + 1)
            ELSE /\ LookupControl(toks[i]) # 0
                 /\ i < Len(toks)
                 /\ Foldable(toks, i + 2)

NoSpeeds == [input |-> BAUD_INVALID, output |-> BAUD_INVALID]

\* the last input and the last output speed the tokens from index i on ask
\* for, read from the left: ispeed and ospeed with their argument, a speed
\* alone for both; r is what the tokens before i asked for
RECURSIVE LastRequested(_, _, _)
LastRequested(toks, i, r) ==
  IF i > Len(toks) THEN r
  ELSE IF toks[i] = N_ispeed /\ i < Len(toks)
    THEN LastRequested(toks, i + 2, [r EXCEPT !.input = string_to_baud(toks[i + 1])])
  ELSE IF toks[i] = N_ospeed /\ i < Len(toks)
    THEN LastRequested(toks, i + 2, [r EXCEPT !.output = string_to_baud(toks[i + 1])])
  ELSE IF TakesArgument(toks[i]) /\ i < Len(toks)
    THEN LastRequested(toks, i + 2, r)
  ELSE IF LookupMode(toks[i]) = 0 /\ string_to_baud(toks[i]) # BAUD_INVALID
    THEN LastRequested(toks, i + 1, [input |-> string_to_baud(toks[i]),
                                     output |-> string_to_baud(toks[i])])
  ELSE LastRequested(toks, i + 1, r)

Asymmetric == "asymmetric speeds not supported"

\* C26: the tokens are applied from the left to the right: an iteration
\* moves on in the list; at the end of a pass over registry names and
\* control characters the snapshot is what the tokens, applied one by one
\* from the first to the last, make of the snapshot the pass began with;
\* the error for asymmetric speeds is raised only by the validating pass,
\* after its last token, when the list asked for an input and for an output
\* speed, and a list that passed the validation asked for one of them at
\* most or has left both as last asked for.
C26_LeftToRight ==
  LET Speeds(r) ==
        /\ (pc = "done" /\ err.msg = Asymmetric)
             => /\ r.input # BAUD_INVALID
                /\ r.output # BAUD_INVALID
                /\ k > Len(settings)
                /\ last = NoIteration
                /\ calls = <<>>
        /\ (pc = "get" /\ ~noargs)
             => \/ r.input = BAUD_INVALID
                \/ r.output = BAUD_INVALID
                \/ cfgetispeed(mode) = r.input /\ cfgetospeed(mode) = r.output
  IN /\ (JustStepped /\ status = "running") => k > last.k
     /\ (pc = "check" /\ k > Len(settings) /\ Foldable(settings, 1))
          => mode = ApplyExpansion(impl, settings, ZeroMode)
     /\ (pc = "apply" /\ k > Len(settings) /\ Foldable(settings, 1))
          => mode = ApplyExpansion(impl, settings, tty)
     /\ Speeds(LastRequested(settings, 1, NoSpeeds))

\* the registry entries that name bits of one flag word
ConcreteEntries ==
  {j \in 1 .. Len(mode_info) : mode_info[j].type \in {"control", "input", "output", "local"}}

\* r is what set_mode is stated to give for the entry and the snapshot m
StatedSetMode(info, reversed, m, r) ==
  LET w == FlagWord(info.type, m)
  IN /\ r.ok = ~(reversed /\ ~HasFlag(info, REV))
     /\ FlagWord(info.type, r.mode)
          = IF reversed /\ ~HasFlag(info, REV) THEN w
            ELSE IF reversed THEN w \ (info.mask \cup info.bits)
            ELSE (w \ info.mask) \cup info.bits
     /\ \A t \in {"control", "input", "output", "local"} \ {info.type} :
          FlagWord(t, r.mode) = FlagWord(t, m)
     /\ r.mode.c_cc = m.c_cc
     /\ r.mode.c_line = m.c_line
     /\ cfgetispeed(r.mode) = cfgetispeed(m)
     /\ cfgetospeed(r.mode) = cfgetospeed(m)

\* the iteration was on the name, plain or negated, of an entry with a flag
\* word
FlagStep ==
  /\ JustStepped
  /\ LET name == IF LastToken[1] = "-" THEN Tail(LastToken) ELSE LastToken
     IN LookupMode(name) \in ConcreteEntries

\* C27: set_mode on an entry with a flag word, for every snapshot an
\* iteration of the real pass leaves: negated and not reversible it returns false and leaves
\* the snapshot; negated and reversible it clears mask and bits from the
\* word; plain it clears the mask and sets the bits; the three other flag
\* words, the control characters, the line discipline and the speeds stay.
\* An iteration on such a name leaves what set_mode gives.
C27_SetModeFrame ==
  /\ last.pass = "apply"
       => \A j \in ConcreteEntries : \A reversed \in BOOLEAN :
            StatedSetMode(mode_info[j], reversed, mode,
                          set_mode(impl, mode_info[j], reversed, mode))
  /\ FlagStep
       => LET reversed == LastToken[1] = "-"
              name == IF reversed THEN Tail(LastToken) ELSE LastToken
          IN StatedSetMode(mode_info[LookupMode(name)], reversed, before.mode,
                           [ok |-> ~(reversed /\ ~HasFlag(mode_info[LookupMode(name)], REV)),
                            mode |-> mode])

\* -parenb was applied to a device with parenb set, in a snapshot with
\* other flag words that are not empty
C27_Witness ==
  /\ FlagStep
  /\ LastToken = <<"-","p","a","r","e","n","b">>
  /\ last.pass = "apply"
  /\ PARENB \subseteq before.mode.c_cflag
  /\ PARENB \cap mode.c_cflag = {}
  /\ mode.c_cflag # {}
  /\ mode.c_iflag # {}
  /\ mode.c_lflag = before.mode.c_lflag

\* the positions of the setting names in a token list, read from position i
\* on: a setting that takes an argument is followed by its argument
RECURSIVE NamePositions(_, _)
NamePositions(toks, i) ==
  IF i > Len(toks) THEN {}
  ELSE {i} \cup NamePositions(toks, IF TakesArgument(toks[i]) THEN i + 2 ELSE i + 1)

\* C28: the validating pass and the real pass split the token list alike:
\* an iteration of either pass is on a setting name and never on the
\* argument of the setting before it (a control character, ispeed, ospeed,
\* rows, cols, columns or line).
C28_PassesSplitAlike ==
  JustStepped => last.k \in NamePositions(settings, 1)

\* the items are the speed item and the line-discipline item and no other
OnlySpeedAndLine(items) ==
  /\ Len(items) = 2
  /\ HasPrefix(items[1], <<"s","p","e","e","d"," ">>) \/ HasPrefix(items[1], <<"i","s","p","e","e","d"," ">>)
  /\ HasPrefix(items[2], <<"l","i","n","e"," ","="," ">>)

\* C29: for the snapshot S of every display run, the changed-only
\* rendering of sane(S) is the speed item and the line-discipline item and
\* nothing else: no control character, no min and time, no flag, plain or
\* negated; so is the changed-only output of a device that sane has left.
C29_SaneShowsNothing ==
  Printed("changed")
    => /\ OnlySpeedAndLine(display_changed(impl, sane_mode(mode)))
       /\ mode = sane_mode(mode) => OnlySpeedAndLine(out)

\* stty has printed the changed-only output of the odd device after sane:
\* two items, although parity and the character size are not the usual ones
C29_Witness ==
  /\ Printed("changed")
  /\ mode = sane_mode(OddTty)
  /\ mode # OddTty
  /\ PARENB \subseteq mode.c_cflag
  /\ out = <<display_speed_fancy(mode), line_item(mode)>>

\* the control characters that are given as characters
CharacterEntries ==
  {i \in 1 .. Len(control_info) : control_info[i].name \notin {N_min, N_time}}

\* C30: for every control character of a displayed snapshot with a value v
\* from 1 to 127, the text visible gives for v, handed to set_control_char
\* as the argument of the slot in a snapshot with another value there, is
\* accepted and stores v again.
C30_VisibleReadsBack ==
  Printed("all")
    => \A i \in CharacterEntries :
         LET info == control_info[i]
             v == mode.c_cc[info.offset]
         IN v \in 1 .. 127
              => set_control_char(impl, info, visible(impl, v),
                                  [mode EXCEPT !.c_cc[info.offset] = 128])
                   = [ok |-> TRUE, mode |-> mode]

=============================================================================
